---- MODULE Spec2Model ----
(***************************************************************************)
(* Job-Flow scraper: discovery frontier, rate-limiter gates, retry wrapper *)
(* and batch executor, modelled from the Python sources.                   *)
(*                                                                         *)
(* Spec       : one discover_jobs session (either adapter variant) under   *)
(*              the listing gate and the retry wrapper.                    *)
(* SpecConc   : concurrent discover_jobs sessions on one adapter.          *)
(* SpecGate   : concurrent scrape_job tasks under the detail-page gate.    *)
(* SpecRetry  : a function under with_retry, failing as it pleases.        *)
(* SpecDetect : detect_bot_challenge on one page.                          *)
(* SpecBatch  : scrape_jobs_batch, the batch executor.                     *)
(* SpecClamp  : the batch executor under every proxy configuration.        *)
(* SpecSafe   : safe_extract over one selector list.                       *)
(* SpecFields : the extraction of one detail page.                         *)
(* SpecDom    : extract_jobs_from_dom on one listing page.                 *)
(* SpecLive   : one awaited operation to its end, under weak fairness.     *)
(* SpecPage   : one extraction pass of a listing page, url variant.        *)
(* SpecScroll : scroll_to_load_all_jobs on one page.                       *)
(* SpecUrl    : the url of one listing card.                               *)
(* SpecCursor : move_cursor_to_element, path and click.                    *)
(* SpecDriver : tasks on the BrowserManager, Runner.run among them.        *)
(***************************************************************************)
EXTENDS Integers, Sequences, FiniteSets, TLC

\* ---------------------------------------------------------------- bounds
NumTasks == 2        \* concurrent discover_jobs calls on the adapter
MaxCards == 2        \* cards one listing page presents
MaxListed == 5       \* cards the listing presents over all its pages
MaxListedConc == 1   \* the same, in the runs with concurrent sessions
MaxFaults == 2       \* driver faults / challenge pages in one run
MaxFaultsConc == 1   \* the same, in the runs with concurrent sessions
NumScrapers == 3     \* concurrent scrape_job calls
MaxCap == 2          \* largest configured capacity of the detail-page gate
MaxFaultsGate == 1   \* driver faults / challenge pages in a scrape_job run
                     \* and in a run of one awaited operation to its end
MaxUrls == 5         \* detail targets handed to the batch executor
MaxConc == 3         \* largest max_concurrent a caller passes
MaxFaultsBatch == 2  \* driver faults / challenge pages in a batch run
MaxRetriesArg == 3   \* largest max_retries a decorator is given
MaxBaseDelay == 2    \* largest base_delay a decorator is given (time units)
MaxDelayCap == 4     \* largest max_delay a decorator is given (time units)
MaxText == 3         \* characters of the html of a page given to the detector
MaxDomText == 2      \* characters of the text of an element of a detail page
MaxDomCards == 3     \* listing cards of a page given to the DOM extraction
MaxHeight == 2       \* screens a listing page can grow to while it is scrolled
MaxHref == 4         \* characters of the href of a card's job link
NumDriverTasks == 2  \* tasks that use the BrowserManager at the same time

\* ------------------------------------------------------ program constants
MAX_PAGES == 5
MAX_CONCURRENT_SERP == 1
MAX_RETRIES == 3

NoId == 0                       \* a card without data-jk / jobkey
DTasks == 1..NumTasks
STasks == 1..NumScrapers
Pages == 0..MAX_PAGES           \* index MAX_PAGES is the page past the ceiling
Unfetched == <<-1>>             \* the listing has not shown this page yet

VARIABLES
    sessions,       \* the discover_jobs calls the caller makes
    site_cards,     \* number of cards the listing has over all its pages
    fault_cap,      \* number of driver faults / challenge pages the run meets
    variant,        \* "url": adapters/indeed.py, "click": adapters/indeed/discovery.py
    seen_jks,       \* IndeedAdapter.seen_jks
    served,         \* what the listing shows on each page (fixed once shown)
    faults,         \* driver faults so far
    serp_permits,   \* serp_limiter._semaphore value
    page_permits,   \* page_limiter._semaphore value
    page_cap,       \* settings.MAX_CONCURRENT_PAGES (read from the environment)
    pc,             \* position of each discover_jobs task
    retries,        \* with_retry.wrapper: retries
    job_urls,       \* discover_jobs: job_urls / jobs_data (natural ids)
    page_num,       \* discover_jobs: page_num
    page_open,      \* the task's listing page is open
    ret,            \* value returned to the caller of the decorated call
    hist,           \* per-invocation log: pages fetched, scrolled, extracted...
    after,          \* tasks that had returned when this task was called
    s_pc,           \* position of each scrape_job task
    s_retries,      \* with_retry.wrapper: retries (scrape_job)
    s_url,          \* scrape_job: the jk parameter of url (NoId: none;
                    \* Unparsed until the function first looks at it)
    s_exc,          \* scrape_job: class of the exception in flight
                    \* ("validation": the Exception of the field check)
    s_job,          \* scrape_job: the Job built, not yet returned
    s_open,         \* scrape_job: the task's detail page is open
    s_ret,          \* the Job returned to the caller
    relay,          \* settings.SCRAPEOPS_API_KEY is set
    provider,       \* settings.PROXY_PROVIDER, lower case
    peer_key,       \* settings.SCRAPERAPI_API_KEY is set
    b_pc,           \* position of the scrape_jobs_batch task
    b_urls,         \* scrape_jobs_batch: job_urls (the jk of each url)
    b_conc,         \* scrape_jobs_batch: max_concurrent
    b_start,        \* scrape_jobs_batch: batch_start
    b_i,            \* items of the current loop already handled
    b_pages,        \* scrape_jobs_batch: pages_and_urls of the current batch
    b_jobs,         \* scrape_jobs_batch: jobs
    b_req,          \* max_concurrent as the caller passed it
    b_items,        \* what happened to each url: round, open, navigation,
                    \* result, close() calls
    b_batches,      \* batch_urls of each round, in order (positions in job_urls)
    b_ret,          \* the list returned to the caller
    w_pc,           \* position of the task inside a with_retry wrapper
    w_max,          \* with_retry: max_retries
    w_base,         \* with_retry: base_delay
    w_cap,          \* with_retry: max_delay
    w_retries,      \* with_retry.wrapper: retries
    w_calls,        \* invocations of the wrapped function so far
    w_fails,        \* class of the exception of each failed invocation
    w_sleeps,       \* twice the sleep_time of each asyncio.sleep, in order
    w_result,       \* what the caller of the wrapper got
    k_pc,           \* position inside detect_bot_challenge
    k_i,            \* index of the selector the loop is at
    k_widgets,      \* the CAPTCHA_SELECTORS that match an element of the page
    k_container,    \* the page has the job cards container
    k_text,         \* page.content(): the html of the page
    k_faulted,      \* a driver call of this detection raised
    k_fault_at,     \* the step whose driver call raised
    k_result,       \* what detect_bot_challenge returned
    e_field,        \* safe_extract: field_name
    e_outs,         \* what each selector of the list finds on the page
    e_pc,           \* position of the safe_extract call
    e_value,        \* what safe_extract returned
    e_consulted,    \* number of selectors safe_extract looked up
    x_pc,           \* position inside the extraction of one detail page
    x_in,           \* the detail page and url the extraction is given
    x_ld,           \* json_ld: what extract_json_ld returned
    x_rec,          \* title, company, location, description resolved so far
    x_seen,         \* number of DOM selectors looked up for each field
    x_out,          \* what the caller of the extraction got
    m_pc,           \* position of the extract_jobs_from_dom call
    m_cards,        \* the listing cards of the page, in document order
    m_jobs,         \* extract_jobs_from_dom: jobs
    c_pc,           \* position inside scroll_to_load_all_jobs
    c_done,         \* scroll_to_load_all_jobs: scrolls_done
    c_up,           \* scroll_to_load_all_jobs: the last pass scrolled back up
    r_pc,           \* position inside Runner.run
    r_data,         \* Runner.run: jobs_data, what discover_jobs returned
    r_i,            \* Runner.run: items of jobs_data the loop has passed
    r_jobs,         \* Runner.run: jobs
    r_exc,          \* Runner.run: the failure its `except Exception` logged
    g_pc,           \* position of the extraction pass over one listing page
    g_page,         \* the listing page: its embedded payload and its DOM cards
    g_cards,        \* the cards the pass took, from the payload or from the DOM
    g_dom_ran,      \* the pass ran the DOM card extraction
    g_urls,         \* the candidates the pass appended
    c_steps,        \* scroll_to_load_all_jobs: window.scrollTo calls made by the loop
    c_top,          \* the scroll position of the page is the top
    c_prev,         \* scroll_to_load_all_jobs: previous_height
    c_height,       \* document.body.scrollHeight of the page, in screens
    c_stop,         \* why scroll_to_load_all_jobs left its loop
    u_pc,           \* position of the url step for one listing card
    u_href,         \* the href attribute of the card's job link
    u_jk,           \* the data-jk attribute of the card's job link
    u_url,          \* job_data["url"]
    h_pc,           \* position in move_cursor_to_element
    h_start,        \* start, the random point in the viewport
    h_end,          \* end, the centre of the target element
    h_steps,        \* steps drawn for the path
    h_path,         \* path, the waypoints (numerators over steps cubed)
    h_i,            \* index of the next waypoint of the loop over path
    h_log,          \* calls made on the page, in order
    bm_h,           \* BrowserManager._playwright, _browser, _context: 0 for None, else the instance
    bm_made,        \* instances created since the last close() call began, by kind
    bm_total,       \* instances ever created, by kind
    bm_pc,          \* position of each task that calls BrowserManager or Runner.run
    bm_op,          \* the operation each task was started with
    bm_k,           \* the handle a task's initialize or close is at
    bm_after,       \* who called the initialize a task is in
    bm_exc,         \* what failed inside the try block of a task's Runner.run
    bm_tore         \* whether a task's Runner.run has called close()

dvars == <<variant, seen_jks, served, serp_permits, pc, retries, job_urls,
           page_num, page_open, ret, hist, after, sessions, site_cards>>

svars == <<s_pc, s_retries, s_url, s_exc, s_job, s_open, s_ret>>

bvars == <<b_pc, b_urls, b_conc, b_start, b_i, b_pages, b_jobs, b_ret, b_req,
           b_items, b_batches>>

envvars == <<relay, provider, peer_key>>

wvars == <<w_pc, w_max, w_base, w_cap, w_retries, w_calls, w_fails, w_sleeps,
           w_result>>

kvars == <<k_pc, k_i, k_widgets, k_container, k_text, k_faulted, k_fault_at,
           k_result>>

evars == <<e_field, e_outs, e_pc, e_value, e_consulted>>

xvars == <<x_pc, x_in, x_ld, x_rec, x_seen, x_out>>

mvars == <<m_pc, m_cards, m_jobs>>

lvars == <<c_pc, c_done, c_up, r_pc, r_data, r_i, r_jobs, r_exc>>

gvars == <<g_pc, g_page, g_cards, g_dom_ran, g_urls>>

cvars == <<c_steps, c_top, c_prev, c_height, c_stop>>

uvars == <<u_pc, u_href, u_jk, u_url>>

hvars == <<h_pc, h_start, h_end, h_steps, h_path, h_i, h_log>>

nvars == <<bm_h, bm_made, bm_total, bm_pc, bm_op, bm_k, bm_after, bm_exc, bm_tore>>

vars == <<dvars, svars, bvars, wvars, envvars, kvars, evars, xvars, mvars, lvars, gvars, cvars, uvars, hvars, nvars, fault_cap, faults, page_permits, page_cap>>

\* ---------------------------------------------------------------- helpers
SeqsUpTo(S, k) == UNION {[1..m -> S] : m \in 0..k}

RECURSIVE SubSeqs(_)
SubSeqs(s) ==
    IF s = <<>> THEN {<<>>}
    ELSE LET r == SubSeqs(Tail(s))
         IN r \cup {<<Head(s)>> \o x : x \in r}

Range(s) == {s[i] : i \in 1..Len(s)}

NoDup(s) == \A i, j \in 1..Len(s) : i # j => s[i] # s[j]

RECURSIVE ListedFrom(_, _)
ListedFrom(sv, n) ==
    IF n > MAX_PAGES THEN 0
    ELSE (IF sv[n] = Unfetched THEN 0 ELSE Len(sv[n])) + ListedFrom(sv, n + 1)

\* ids page n can present: none, any id an earlier page could have had, one more
PageIds(n) == 0..(n + 1)

\* what the listing may show when page n is loaded: the same cards as before
\* if it was shown already (fixed listing), else any cards within the bounds
Contents(n) ==
    IF served[n] # Unfetched THEN {served[n]}
    ELSE LET left == site_cards - ListedFrom(served, 0)
             k == IF left < MaxCards THEN left ELSE MaxCards
         IN SeqsUpTo(PageIds(n), k)

\* `if jk and jk not in self.seen_jks` / `if not jk or jk in seen_jks: continue`
IsNew_NoSeenCheck(jk, seen) == jk # NoId

IsNew(jk, seen) == jk # NoId /\ jk \notin seen

\* the per-card loop of one page: add every new id to the dedup set and to
\* the candidate list, count them
RECURSIVE AddNew(_, _, _)
AddNew(cards, seen, urls) ==
    IF cards = <<>> THEN [seen |-> seen, urls |-> urls, new |-> 0]
    ELSE LET jk == Head(cards)
         IN IF IsNew(jk, seen)
            THEN LET r == AddNew(Tail(cards), seen \cup {jk}, Append(urls, jk))
                 IN [r EXCEPT !.new = @ + 1]
            ELSE AddNew(Tail(cards), seen, urls)

NewHist == [fetched |-> <<>>, scrolled |-> {}, extracted |-> {},
            news |-> <<>>, stop |-> "none", snap |-> <<>>, failedAt |-> -1,
            closeFailed |-> FALSE]

\* an exception leaves the decorated function and with_retry.wrapper
\* decides: PlaywrightError / asyncio.TimeoutError ("transport") is retried
\* after a sleep unless retries >= max_retries; anything else is re-raised
Retryable_All(cls) == TRUE

\* `except (PlaywrightError, asyncio.TimeoutError)` against `except Exception`
Retryable(cls) == cls = "transport"

Exhausted_Early(r, max) == r + 1 >= max

\* `if retries >= max_retries: raise`
Exhausted(r, max) == r >= max

RetryDecision(r, cls) ==
    IF Retryable(cls) /\ ~Exhausted(r, MAX_RETRIES) THEN "sleep" ELSE "raised"

AfterRaise(t, cls) == RetryDecision(retries[t], cls)

ErrClasses == {"transport", "other"}

NoJob == [id |-> NoId, title |-> "none"]

Unparsed == -1

\* the jk parameter of the url task t was called with
UrlJk(t) == IF s_url[t] = Unparsed THEN {NoId, t} ELSE {s_url[t]}

\* ------------------------------------------------------------------- Init
\* keys of PROXY_PROVIDERS the run is configured with ("generic" and "zenrows"
\* are resolved like "scraperapi", from their own setting)
Providers == {"none", "scrapeops", "scraperapi"}

\* the settings a run can have: SCRAPEOPS_API_KEY set, PROXY_PROVIDER,
\* SCRAPERAPI_API_KEY set (read only by the "scraperapi" provider)
Envs == {env \in BOOLEAN \X Providers \X BOOLEAN :
            env[3] => env[2] = "scraperapi"}

\* a results page: no challenge widget, the cards container, no html kept
PlainPage == [widgets |-> {}, container |-> TRUE, text |-> <<>>]

\* no key in the environment, PROXY_PROVIDER = "none"
NoProxyEnv == <<FALSE, "none", FALSE>>

\* `@with_retry()`: the defaults, settings.MAX_RETRIES, RETRY_BASE_DELAY and
\* RETRY_MAX_DELAY (5.0 s and 10.0 s: one time unit is 5 s)
DefaultDecorator == <<MAX_RETRIES, 1, 2>>

InitBase(tasks, cards, nfaults, variants, caps, envs, decorators, shown) ==
    /\ \E pg \in shown : /\ k_widgets = pg.widgets
                         /\ k_container = pg.container
                         /\ k_text = pg.text
    /\ k_pc = "idle"
    /\ k_i = 1
    /\ k_faulted = FALSE
    /\ k_fault_at = "none"
    /\ k_result = "none"
    /\ \E env \in envs : relay = env[1] /\ provider = env[2] /\ peer_key = env[3]
    /\ b_req = 1
    /\ b_items = <<>>
    /\ b_batches = <<>>
    /\ \E d \in decorators : w_max = d[1] /\ w_base = d[2] /\ w_cap = d[3]
    /\ w_pc = "idle"
    /\ w_retries = 0
    /\ w_calls = 0
    /\ w_fails = <<>>
    /\ w_sleeps = <<>>
    /\ w_result = "none"
    /\ sessions = tasks
    /\ site_cards = cards
    /\ fault_cap = nfaults
    /\ page_cap \in caps
    /\ page_permits = page_cap
    /\ s_pc = [t \in STasks |-> "idle"]
    /\ s_retries = [t \in STasks |-> 0]
    /\ s_url = [t \in STasks |-> Unparsed]
    /\ s_exc = [t \in STasks |-> "none"]
    /\ s_job = [t \in STasks |-> NoJob]
    /\ s_open = [t \in STasks |-> FALSE]
    /\ s_ret = [t \in STasks |-> NoJob]
    /\ b_pc = "idle"
    /\ b_urls = <<>>
    /\ b_conc = 1
    /\ b_start = 0
    /\ b_i = 0
    /\ b_pages = <<>>
    /\ b_jobs = <<>>
    /\ b_ret = <<>>
    /\ variant \in variants
    /\ seen_jks = {}
    /\ served = [n \in Pages |-> Unfetched]
    /\ faults = 0
    /\ serp_permits = MAX_CONCURRENT_SERP
    /\ pc = [t \in DTasks |-> "idle"]
    /\ retries = [t \in DTasks |-> 0]
    /\ job_urls = [t \in DTasks |-> <<>>]
    /\ page_num = [t \in DTasks |-> 0]
    /\ page_open = [t \in DTasks |-> FALSE]
    /\ ret = [t \in DTasks |-> <<>>]
    /\ hist = [t \in DTasks |-> NewHist]
    /\ after = [t \in DTasks |-> {}]

\* no safe_extract call to make
IdleSafe ==
    /\ e_field = "title"
    /\ e_outs = <<>>
    /\ e_pc = "off"
    /\ e_value = <<>>
    /\ e_consulted = 0

\* no detail page to extract
IdleFields ==
    /\ x_pc = "off"
    /\ x_in = <<>>
    /\ x_ld = <<>>
    /\ x_rec = <<>>
    /\ x_seen = <<>>
    /\ x_out = <<>>

\* no listing page to extract from
IdleDom ==
    /\ m_pc = "off"
    /\ m_cards = <<>>
    /\ m_jobs = <<>>

\* no scroll_to_load_all_jobs call and no Runner.run call to make
IdleLive ==
    /\ c_pc = "off"
    /\ c_done = 0
    /\ c_up = FALSE
    /\ r_pc = "off"
    /\ r_data = <<>>
    /\ r_i = 0
    /\ r_jobs = <<>>
    /\ r_exc = "none"

\* no listing page to make an extraction pass over
IdlePage ==
    /\ g_pc = "off"
    /\ g_page = <<>>
    /\ g_cards = <<>>
    /\ g_dom_ran = FALSE
    /\ g_urls = <<>>

\* the page scroll_to_load_all_jobs is given, not scrolled yet
IdleScrolled ==
    /\ c_steps = 0
    /\ c_top = TRUE
    /\ c_prev = 0
    /\ c_height = 1
    /\ c_stop = "none"

\* no listing card to build a url for
IdleUrl ==
    /\ u_pc = "off"
    /\ u_href = <<>>
    /\ u_jk = <<>>
    /\ u_url = <<>>

\* no cursor move in progress
IdleCursor ==
    /\ h_pc = "off"
    /\ h_start = <<0, 0>>
    /\ h_end = <<0, 0>>
    /\ h_steps = 0
    /\ h_path = <<>>
    /\ h_i = 0
    /\ h_log = <<>>

\* no task uses the BrowserManager
IdleDriver ==
    /\ bm_h = <<0, 0, 0>>
    /\ bm_made = <<0, 0, 0>>
    /\ bm_total = <<0, 0, 0>>
    /\ bm_pc = <<>>
    /\ bm_op = <<>>
    /\ bm_k = <<>>
    /\ bm_after = <<>>
    /\ bm_exc = <<>>
    /\ bm_tore = <<>>

IdleMore ==
    /\ IdlePage
    /\ IdleScrolled
    /\ IdleUrl
    /\ IdleCursor
    /\ IdleDriver

InitWith(tasks, cards, nfaults, variants, caps, envs, decorators, shown) ==
    /\ InitBase(tasks, cards, nfaults, variants, caps, envs, decorators, shown)
    /\ IdleSafe
    /\ IdleFields
    /\ IdleDom
    /\ IdleLive
    /\ IdleMore

\* nothing but the defaults: no task, no fault, no key in the environment
InitNone == InitBase({}, 0, 0, {"url"}, {MaxCap}, {NoProxyEnv},
                     {DefaultDecorator}, {PlainPage})

\* one discovery session over a listing of up to MaxListed cards
Init == InitWith({1}, MaxListed, MaxFaults, {"url", "click"}, {MaxCap}, {NoProxyEnv},
            {DefaultDecorator}, {PlainPage})

\* concurrent discovery sessions on the same adapter
InitConc == InitWith(DTasks, MaxListedConc, MaxFaultsConc, {"url", "click"}, {MaxCap}, {NoProxyEnv},
            {DefaultDecorator}, {PlainPage})

\* scrape_job tasks only
InitGate == InitWith({}, 0, MaxFaultsGate, {"url"}, 1..MaxCap, {NoProxyEnv},
            {DefaultDecorator}, {PlainPage})

\* the batch executor only, no key in the environment
InitBatch == InitWith({}, 0, MaxFaultsBatch, {"url"}, {MaxCap},
                      {NoProxyEnv}, {DefaultDecorator}, {PlainPage})

\* the batch executor under every combination of the proxy settings
InitClamp == InitWith({}, 0, MaxFaultsBatch, {"url"}, {MaxCap}, Envs,
                      {DefaultDecorator}, {PlainPage})

\* ---------------------------------------------------------------- actions
\* the caller awaits adapter.discover_jobs(): wrapper starts, retries = 0,
\* the function body starts with an empty candidate list and page_num = 0
Call(t) ==
    /\ t \in sessions
    /\ pc[t] = "idle"
    /\ pc' = [pc EXCEPT ![t] = "acquire"]
    /\ retries' = [retries EXCEPT ![t] = 0]
    /\ job_urls' = [job_urls EXCEPT ![t] = <<>>]
    /\ page_num' = [page_num EXCEPT ![t] = 0]
    /\ hist' = [hist EXCEPT ![t] = NewHist]
    /\ after' = [after EXCEPT ![t] = {u \in DTasks : pc[u] = "done"}]
    /\ UNCHANGED <<svars, nvars, hvars, uvars, cvars, gvars, bvars, wvars, envvars, kvars, evars, xvars, mvars, lvars, page_cap, sessions, site_cards, fault_cap, variant, seen_jks, served, faults, serp_permits,
                   page_permits, page_open, ret>>

\* `async with serp_limiter`: RateLimiter.__aenter__ -> Semaphore.acquire
SerpAcquire_NoWait(t) ==
    /\ pc[t] = "acquire"
    /\ serp_permits' = serp_permits - 1
    /\ pc' = [pc EXCEPT ![t] = "new_page"]
    /\ UNCHANGED <<svars, nvars, hvars, uvars, cvars, gvars, bvars, wvars, envvars, kvars, evars, xvars, mvars, lvars, page_cap, sessions, site_cards, fault_cap, variant, seen_jks, served, faults, page_permits, retries,
                   job_urls, page_num, page_open, ret, hist, after>>

SerpAcquire(t) ==
    /\ pc[t] = "acquire"
    /\ serp_permits > 0
    /\ serp_permits' = serp_permits - 1
    /\ pc' = [pc EXCEPT ![t] = "new_page"]
    /\ UNCHANGED <<svars, nvars, hvars, uvars, cvars, gvars, bvars, wvars, envvars, kvars, evars, xvars, mvars, lvars, page_cap, sessions, site_cards, fault_cap, variant, seen_jks, served, faults, page_permits, retries,
                   job_urls, page_num, page_open, ret, hist, after>>

\* `page = await context.new_page()`, outside the try block: a failure leaves
\* the `async with` (permit released) and reaches the retry wrapper
NewPage(t) ==
    /\ pc[t] = "new_page"
    /\ \/ /\ page_open' = [page_open EXCEPT ![t] = TRUE]
          /\ pc' = [pc EXCEPT ![t] = IF variant = "click" THEN "search" ELSE "goto"]
          /\ UNCHANGED <<faults, serp_permits>>
       \/ /\ faults < fault_cap
          /\ faults' = faults + 1
          /\ \E cls \in ErrClasses :
                pc' = [pc EXCEPT ![t] = AfterRaise(t, cls)]
          /\ serp_permits' = serp_permits + 1
          /\ UNCHANGED page_open
    /\ UNCHANGED <<svars, nvars, hvars, uvars, cvars, gvars, bvars, wvars, envvars, kvars, evars, xvars, mvars, lvars, page_cap, sessions, site_cards, fault_cap, variant, seen_jks, served, page_permits, retries,
                   job_urls, page_num, ret, hist, after>>

\* `except Exception as e: logger.error(...)  # Don't raise - return partial
\* results`: the failure is swallowed and control reaches the finally block
AfterNavError_Propagate(t) == AfterRaise(t, "transport")

AfterNavError(t) == "close"

\* click variant, lines 139-166: open the homepage, type the query and the
\* locality with the human-input helpers, press search, wait for the results
\* container (its timeout is swallowed). Success leaves the first results
\* page (page 0) loaded; any failure is caught by the outer `except Exception`
Search(t) ==
    /\ pc[t] = "search"
    /\ \/ /\ \E c \in Contents(0) : served' = [served EXCEPT ![0] = c]
          /\ hist' = [hist EXCEPT ![t].fetched = Append(@, 0),
                                  ![t].snap = job_urls[t]]
          /\ pc' = [pc EXCEPT ![t] = "detect"]
          /\ UNCHANGED faults
       \/ /\ faults < fault_cap
          /\ faults' = faults + 1
          /\ hist' = [hist EXCEPT ![t].stop = "error", ![t].failedAt = 0,
                                  ![t].snap = job_urls[t]]
          /\ pc' = [pc EXCEPT ![t] = AfterNavError(t)]
          /\ UNCHANGED served
    /\ UNCHANGED <<svars, nvars, hvars, uvars, cvars, gvars, bvars, wvars, envvars, kvars, evars, xvars, mvars, lvars, page_cap, sessions, site_cards, fault_cap, variant, seen_jks, serp_permits, page_permits, retries,
                   job_urls, page_num, page_open, ret, after>>

\* `await page.goto(url, ...)` for listing page page_num; a navigation error
\* or timeout is caught by the outer `except Exception`
Goto(t) ==
    /\ pc[t] = "goto"
    /\ LET n == page_num[t] IN
       \/ /\ \E c \in Contents(n) : served' = [served EXCEPT ![n] = c]
          /\ hist' = [hist EXCEPT ![t].fetched = Append(@, n),
                                  ![t].snap = job_urls[t]]
          /\ pc' = [pc EXCEPT ![t] = "detect"]
          /\ UNCHANGED faults
       \/ /\ faults < fault_cap
          /\ faults' = faults + 1
          /\ hist' = [hist EXCEPT ![t].fetched = Append(@, n),
                                  ![t].snap = job_urls[t],
                                  ![t].stop = "error", ![t].failedAt = n]
          /\ pc' = [pc EXCEPT ![t] = AfterNavError(t)]
          /\ UNCHANGED served
    /\ UNCHANGED <<svars, nvars, hvars, uvars, cvars, gvars, bvars, wvars, envvars, kvars, evars, xvars, mvars, lvars, page_cap, sessions, site_cards, fault_cap, variant, seen_jks, serp_permits, page_permits, retries,
                   job_urls, page_num, page_open, ret, after>>

\* `if await detect_bot_challenge(page): break`
AfterDetect_IgnoreBlock(blocked) == "scroll"

AfterDetect(blocked) == IF blocked THEN "close" ELSE "scroll"

Detect(t) ==
    /\ pc[t] = "detect"
    /\ \/ /\ pc' = [pc EXCEPT ![t] = AfterDetect(FALSE)]
          /\ UNCHANGED <<faults, hist>>
       \/ /\ faults < fault_cap
          /\ faults' = faults + 1
          /\ hist' = [hist EXCEPT ![t].stop = "blocked"]
          /\ pc' = [pc EXCEPT ![t] = AfterDetect(TRUE)]
    /\ UNCHANGED <<svars, nvars, hvars, uvars, cvars, gvars, bvars, wvars, envvars, kvars, evars, xvars, mvars, lvars, page_cap, sessions, site_cards, fault_cap, variant, seen_jks, served, serp_permits, page_permits,
                   retries, job_urls, page_num, page_open, ret, after>>

\* `await scroll_to_load_all_jobs(page)`: swallows its own exceptions
Scroll(t) ==
    /\ pc[t] = "scroll"
    /\ hist' = [hist EXCEPT ![t].scrolled = @ \cup {page_num[t]}]
    /\ pc' = [pc EXCEPT ![t] = "extract"]
    /\ UNCHANGED <<svars, nvars, hvars, uvars, cvars, gvars, bvars, wvars, envvars, kvars, evars, xvars, mvars, lvars, page_cap, sessions, site_cards, fault_cap, variant, seen_jks, served, faults, serp_permits,
                   page_permits, retries, job_urls, page_num, page_open,
                   ret, after>>

\* `while page_num < MAX_PAGES`
ContinueLoop_OffByOne(n) == n <= MAX_PAGES

ContinueLoop(n) == n < MAX_PAGES

\* `if new_jobs_found == 0: break`
StopOnNoNew_Never(new) == FALSE

StopOnNoNew(new) == new = 0

\* `page_num += 1`
NextPage_Skip(n) == n + 2

NextPage(n) == n + 1

\* the cards an extraction pass obtains from the loaded page.
\* url variant: the mosaic payload when it yields entries, else the DOM
\* cards; extract_jobs_from_dom skips a card whose driver calls fault.
\* click variant: extract_jobs_by_clicking skips a card whose driver calls
\* fault (attribute read, title lookup, click, description wait).
Extracted(cards) ==
    IF variant = "url"
    THEN {m \in {<<>>, cards} : m # <<>>} \cup SubSeqs(cards)
    ELSE SubSeqs(cards)

\* one extraction pass over page page_num, the dedup loop and the
\* stop/continue decision that follows it without suspension
Extract(t) ==
    /\ pc[t] = "extract"
    /\ LET n == page_num[t]
           cards == served[n]
       IN \E eff \in Extracted(cards) :
            LET r == AddNew(eff, seen_jks, job_urls[t])
                lost == eff # cards
            IN /\ lost => faults < fault_cap
               /\ faults' = IF lost THEN faults + 1 ELSE faults
               /\ seen_jks' = r.seen
               /\ job_urls' = [job_urls EXCEPT ![t] = r.urls]
               /\ IF StopOnNoNew(r.new)
                  THEN /\ page_num' = page_num
                       /\ pc' = [pc EXCEPT ![t] = "close"]
                       /\ hist' = [hist EXCEPT
                                     ![t].extracted = @ \cup {n},
                                     ![t].news = Append(@, r.new),
                                     ![t].stop = "converged",
                                     ![t].failedAt =
                                        IF lost /\ eff = <<>> THEN n ELSE @]
                  ELSE /\ page_num' = [page_num EXCEPT ![t] = NextPage(n)]
                       /\ IF ContinueLoop(NextPage(n))
                          THEN /\ pc' = [pc EXCEPT ![t] = "goto"]
                               /\ hist' = [hist EXCEPT
                                     ![t].extracted = @ \cup {n},
                                     ![t].news = Append(@, r.new)]
                          ELSE /\ pc' = [pc EXCEPT ![t] = "close"]
                               /\ hist' = [hist EXCEPT
                                     ![t].extracted = @ \cup {n},
                                     ![t].news = Append(@, r.new),
                                     ![t].stop = "exhausted"]
    /\ UNCHANGED <<svars, nvars, hvars, uvars, cvars, gvars, bvars, wvars, envvars, kvars, evars, xvars, mvars, lvars, page_cap, sessions, site_cards, fault_cap, variant, served, serp_permits, page_permits, retries,
                   page_open, ret, after>>

PageAfterClose_Leak(open) == open

\* `await page.close()`: the page is gone, also when the call raises
PageAfterClose(open) == FALSE

\* `finally: await page.close()`, then the `async with` exit releases the
\* permit and the function returns its candidates; a close that raises
\* (the page target is gone) still leaves the gate and reaches the wrapper
Close(t) ==
    /\ pc[t] = "close"
    /\ page_open' = [page_open EXCEPT ![t] = PageAfterClose(@)]
    /\ serp_permits' = serp_permits + 1
    /\ \/ /\ pc' = [pc EXCEPT ![t] = "done"]
          /\ ret' = [ret EXCEPT ![t] = job_urls[t]]
          /\ UNCHANGED <<faults, hist>>
       \/ /\ faults < fault_cap
          /\ faults' = faults + 1
          /\ hist' = [hist EXCEPT ![t].closeFailed = TRUE]
          /\ \E cls \in ErrClasses :
                pc' = [pc EXCEPT ![t] = AfterRaise(t, cls)]
          /\ UNCHANGED ret
    /\ UNCHANGED <<svars, nvars, hvars, uvars, cvars, gvars, bvars, wvars, envvars, kvars, evars, xvars, mvars, lvars, page_cap, sessions, site_cards, fault_cap, variant, seen_jks, served, page_permits, retries,
                   job_urls, page_num, after>>

\* `await asyncio.sleep(sleep_time); retries += 1`, then the loop calls the
\* function again: fresh candidate list, page_num = 0
Wake(t) ==
    /\ pc[t] = "sleep"
    /\ retries' = [retries EXCEPT ![t] = @ + 1]
    /\ job_urls' = [job_urls EXCEPT ![t] = <<>>]
    /\ page_num' = [page_num EXCEPT ![t] = 0]
    /\ hist' = [hist EXCEPT ![t] = NewHist]
    /\ pc' = [pc EXCEPT ![t] = "acquire"]
    /\ UNCHANGED <<svars, nvars, hvars, uvars, cvars, gvars, bvars, wvars, envvars, kvars, evars, xvars, mvars, lvars, page_cap, sessions, site_cards, fault_cap, variant, seen_jks, served, faults, serp_permits,
                   page_permits, page_open, ret, after>>

Next ==
    \E t \in DTasks :
        \/ Call(t)
        \/ SerpAcquire(t)
        \/ NewPage(t)
        \/ Search(t)
        \/ Goto(t)
        \/ Detect(t)
        \/ Scroll(t)
        \/ Extract(t)
        \/ Close(t)
        \/ Wake(t)

Spec == Init /\ [][Next]_vars

SpecConc == InitConc /\ [][Next]_vars

\* ------------------------------------------------------------ scrape_job
\* the caller awaits scrape_job(context, url): wrapper starts, retries = 0
ScrapeCall(t) ==
    /\ s_pc[t] = "idle"
    /\ s_pc' = [s_pc EXCEPT ![t] = "acquire"]
    /\ s_retries' = [s_retries EXCEPT ![t] = 0]
    /\ UNCHANGED <<dvars, nvars, hvars, uvars, cvars, gvars, bvars, wvars, envvars, kvars, evars, xvars, mvars, lvars, s_url, s_exc, s_job, s_open, s_ret, fault_cap, faults,
                   page_permits, page_cap>>

\* `async with page_limiter`: RateLimiter.__aenter__ -> Semaphore.acquire
ScrapeAcquire(t) ==
    /\ s_pc[t] = "acquire"
    /\ page_permits > 0
    /\ page_permits' = page_permits - 1
    /\ s_pc' = [s_pc EXCEPT ![t] = "new_page"]
    /\ UNCHANGED <<dvars, nvars, hvars, uvars, cvars, gvars, bvars, wvars, envvars, kvars, evars, xvars, mvars, lvars, s_retries, s_url, s_exc, s_job, s_open, s_ret,
                   fault_cap, faults, page_cap>>

\* RateLimiter.__aexit__(exc_type, ...): self.release(), whatever exc_type is
AfterExit_KeepOnError(permits, failed) == IF failed THEN permits ELSE permits + 1

AfterExit(permits, failed) == permits + 1

\* `page = await context.new_page()`, outside the try block
ScrapeNewPage(t) ==
    /\ s_pc[t] = "new_page"
    /\ \/ /\ s_open' = [s_open EXCEPT ![t] = TRUE]
          /\ s_pc' = [s_pc EXCEPT ![t] = "goto"]
          /\ UNCHANGED <<faults, page_permits>>
       \/ /\ faults < fault_cap
          /\ faults' = faults + 1
          /\ page_permits' = AfterExit(page_permits, TRUE)
          /\ \E cls \in ErrClasses :
                s_pc' = [s_pc EXCEPT ![t] = RetryDecision(s_retries[t], cls)]
          /\ UNCHANGED s_open
    /\ UNCHANGED <<dvars, nvars, hvars, uvars, cvars, gvars, bvars, wvars, envvars, kvars, evars, xvars, mvars, lvars, s_retries, s_url, s_exc, s_job, s_ret, fault_cap,
                   page_cap>>

\* `await page.goto(url, ...)`: a navigation error or timeout is logged and
\* re-raised by `except Exception: ... raise`, through the finally block
ScrapeGoto(t) ==
    /\ s_pc[t] = "goto"
    /\ \/ /\ s_pc' = [s_pc EXCEPT ![t] = "detect"]
          /\ UNCHANGED <<faults, s_exc>>
       \/ /\ faults < fault_cap
          /\ faults' = faults + 1
          /\ s_exc' = [s_exc EXCEPT ![t] = "transport"]
          /\ s_pc' = [s_pc EXCEPT ![t] = "close"]
    /\ UNCHANGED <<dvars, nvars, hvars, uvars, cvars, gvars, bvars, wvars, envvars, kvars, evars, xvars, mvars, lvars, s_retries, s_url, s_job, s_open, s_ret, fault_cap,
                   page_permits, page_cap>>

\* `if await detect_bot_challenge(page): raise Exception("Bot detection
\* triggered")`
ScrapeDetect(t) ==
    /\ s_pc[t] = "detect"
    /\ \/ /\ s_pc' = [s_pc EXCEPT ![t] = "extract"]
          /\ UNCHANGED <<faults, s_exc>>
       \/ /\ faults < fault_cap
          /\ faults' = faults + 1
          /\ s_exc' = [s_exc EXCEPT ![t] = "other"]
          /\ s_pc' = [s_pc EXCEPT ![t] = "close"]
    /\ UNCHANGED <<dvars, nvars, hvars, uvars, cvars, gvars, bvars, wvars, envvars, kvars, evars, xvars, mvars, lvars, s_retries, s_url, s_job, s_open, s_ret, fault_cap,
                   page_permits, page_cap>>

\* `if title.startswith("Unknown") or job_id == "unknown"`
MissingCritical(jk, title) == title = "Unknown Title" \/ jk = NoId

\* lines 219-258: the field extractors swallow driver faults and answer with
\* the value found or the sentinel; the id comes from the url's jk parameter;
\* a record with a sentinel title or without id raises Exception("Missing
\* critical job fields"), else the Job is built and returned
ScrapeExtract(t) ==
    /\ s_pc[t] = "extract"
    /\ \E title \in {"title", "Unknown Title"}, jk \in UrlJk(t) :
          /\ s_url' = [s_url EXCEPT ![t] = jk]
          /\ IF MissingCritical(jk, title)
             THEN /\ s_exc' = [s_exc EXCEPT ![t] = "validation"]
                  /\ UNCHANGED s_job
             ELSE /\ s_job' = [s_job EXCEPT ![t] = [id |-> jk, title |-> title]]
                  /\ UNCHANGED s_exc
    /\ s_pc' = [s_pc EXCEPT ![t] = "close"]
    /\ UNCHANGED <<dvars, nvars, hvars, uvars, cvars, gvars, bvars, wvars, envvars, kvars, evars, xvars, mvars, lvars, s_retries, s_open, s_ret, fault_cap, faults,
                   page_permits, page_cap>>

\* `finally: await page.close()`, then the `async with` exit releases the
\* permit; the Job is returned, or the exception in flight (or the one
\* close() raised in its place) reaches the retry wrapper
ScrapeClose(t) ==
    /\ s_pc[t] = "close"
    /\ s_open' = [s_open EXCEPT ![t] = PageAfterClose(@)]
    /\ \/ /\ UNCHANGED faults
          /\ page_permits' = AfterExit(page_permits, s_exc[t] # "none")
          /\ IF s_exc[t] = "none"
             THEN /\ s_pc' = [s_pc EXCEPT ![t] = "done"]
                  /\ s_ret' = [s_ret EXCEPT ![t] = s_job[t]]
                  /\ UNCHANGED s_exc
             ELSE /\ s_pc' = [s_pc EXCEPT ![t] =
                                 RetryDecision(s_retries[t], s_exc[t])]
                  /\ UNCHANGED <<s_ret, s_exc>>
       \/ /\ faults < fault_cap
          /\ faults' = faults + 1
          /\ page_permits' = AfterExit(page_permits, TRUE)
          /\ \E cls \in ErrClasses :
                /\ s_exc' = [s_exc EXCEPT ![t] = cls]
                /\ s_pc' = [s_pc EXCEPT ![t] = RetryDecision(s_retries[t], cls)]
          /\ UNCHANGED s_ret
    /\ UNCHANGED <<dvars, nvars, hvars, uvars, cvars, gvars, bvars, wvars, envvars, kvars, evars, xvars, mvars, lvars, s_retries, s_url, s_job, fault_cap, page_cap>>

\* `await asyncio.sleep(sleep_time); retries += 1`, then the function is
\* called again
ScrapeWake(t) ==
    /\ s_pc[t] = "sleep"
    /\ s_retries' = [s_retries EXCEPT ![t] = @ + 1]
    /\ s_exc' = [s_exc EXCEPT ![t] = "none"]
    /\ s_job' = [s_job EXCEPT ![t] = NoJob]
    /\ s_pc' = [s_pc EXCEPT ![t] = "acquire"]
    /\ UNCHANGED <<dvars, nvars, hvars, uvars, cvars, gvars, bvars, wvars, envvars, kvars, evars, xvars, mvars, lvars, s_url, s_open, s_ret, fault_cap, faults,
                   page_permits, page_cap>>

NextGate ==
    \E t \in STasks :
        \/ ScrapeCall(t)
        \/ ScrapeAcquire(t)
        \/ ScrapeNewPage(t)
        \/ ScrapeGoto(t)
        \/ ScrapeDetect(t)
        \/ ScrapeExtract(t)
        \/ ScrapeClose(t)
        \/ ScrapeWake(t)

SpecGate == InitGate /\ [][NextGate]_vars

\* ------------------------------------------------------------ with_retry
\* the decorators a function can be given: max_retries, base_delay, max_delay
Decorators == (0..MaxRetriesArg) \X (1..MaxBaseDelay) \X (1..MaxDelayCap)

InitRetry == InitWith({}, 0, 0, {"url"}, {MaxCap}, {NoProxyEnv}, Decorators,
                      {PlainPage})

Delay_NoCap(base, k, cap) == base * (2 ^ k)

\* `delay = min(base_delay * (2**retries), max_delay)`
Delay(base, k, cap) == IF base * (2 ^ k) < cap THEN base * (2 ^ k) ELSE cap

\* `jitter = random.uniform(0, 0.5 * delay)`, doubled: any value in [0, delay]
Jitter2(delay) == 0..delay

\* `sleep_time = delay + jitter`, doubled
SleepTimes2(base, k, cap) ==
    {2 * Delay(base, k, cap) + j : j \in Jitter2(Delay(base, k, cap))}

\* the caller awaits the decorated function: `retries = 0`, `while True`
WrapCall ==
    /\ w_pc = "idle"
    /\ w_pc' = "call"
    /\ w_retries' = 0
    /\ UNCHANGED <<dvars, nvars, hvars, uvars, cvars, gvars, svars, bvars, envvars, kvars, evars, xvars, mvars, lvars, fault_cap, faults, page_permits,
                   page_cap, w_max, w_base, w_cap, w_calls, w_fails, w_sleeps,
                   w_result>>

\* `return await func(*args, **kwargs)` and the except clauses: the function
\* returns, or raises an exception of one of the two classes; a retryable
\* one with retries left computes sleep_time and starts the sleep
WrapInvoke ==
    /\ w_pc = "call"
    /\ w_calls' = w_calls + 1
    /\ \/ /\ w_pc' = "returned"
          /\ w_result' = "ok"
          /\ UNCHANGED <<w_fails, w_sleeps>>
       \/ \E cls \in ErrClasses :
            /\ w_fails' = Append(w_fails, cls)
            /\ IF Retryable(cls) /\ ~Exhausted(w_retries, w_max)
               THEN /\ \E t2 \in SleepTimes2(w_base, w_retries, w_cap) :
                          w_sleeps' = Append(w_sleeps, t2)
                    /\ w_pc' = "sleep"
                    /\ UNCHANGED w_result
               ELSE /\ w_pc' = "raised"
                    /\ w_result' = cls
                    /\ UNCHANGED w_sleeps
    /\ UNCHANGED <<dvars, nvars, hvars, uvars, cvars, gvars, svars, bvars, envvars, kvars, evars, xvars, mvars, lvars, fault_cap, faults, page_permits,
                   page_cap, w_max, w_base, w_cap, w_retries>>

\* `await asyncio.sleep(sleep_time)` is over; `retries += 1`, next iteration
WrapWake ==
    /\ w_pc = "sleep"
    /\ w_retries' = w_retries + 1
    /\ w_pc' = "call"
    /\ UNCHANGED <<dvars, nvars, hvars, uvars, cvars, gvars, svars, bvars, envvars, kvars, evars, xvars, mvars, lvars, fault_cap, faults, page_permits,
                   page_cap, w_max, w_base, w_cap, w_calls, w_fails, w_sleeps,
                   w_result>>

NextRetry ==
    \/ WrapCall
    \/ WrapInvoke
    \/ WrapWake

SpecRetry == InitRetry /\ [][NextRetry]_vars

\* --------------------------------------------------- detect_bot_challenge
\* number of entries of CAPTCHA_SELECTORS
NumSelectors == 6

\* the characters of a page's html: a lower-case letter, its upper-case
\* form, another lower-case letter
Chars == {"a", "A", "z"}

\* BLOCKING_KEYWORDS, lower-case phrases ("security check", "blocked", ...)
BLOCKING_KEYWORDS == {<<"a", "z">>, <<"z", "z">>}

\* the pages the detector can be given
ShownPages ==
    [widgets : SUBSET (1..NumSelectors), container : BOOLEAN,
     text : SeqsUpTo(Chars, MaxText)]

InitDetect == InitWith({}, 0, 0, {"url"}, {MaxCap}, {NoProxyEnv},
                       {DefaultDecorator}, ShownPages)

\* str.lower()
Lower(text) == [i \in 1..Len(text) |-> IF text[i] = "A" THEN "a" ELSE text[i]]

\* `keyword in html_lower`
Contains(text, kw) ==
    \E i \in 1..(Len(text) - Len(kw) + 1) :
        SubSeq(text, i, i + Len(kw) - 1) = kw

\* `any(keyword in html_lower for keyword in BLOCKING_KEYWORDS)`
HasKeyword(html) == \E kw \in BLOCKING_KEYWORDS : Contains(Lower(html), kw)

AfterContainer_Always(has_jobs) == "content"

AfterDetectFault_Propagate(step) == "raised"

\* `except Exception as e: logger.debug(...); return False` around the whole
\* body: a driver call that raises at any step ends the detection normally
AfterDetectFault(step) == "done"

\* `if not has_jobs:` guards the keyword check
AfterContainer(has_jobs) == IF has_jobs THEN "done" ELSE "content"

\* detect_bot_challenge(page) is called
DetectCall ==
    /\ k_pc = "idle"
    /\ k_pc' = "widgets"
    /\ k_i' = 1
    /\ UNCHANGED <<dvars, nvars, hvars, uvars, cvars, gvars, svars, bvars, wvars, envvars, evars, xvars, mvars, lvars, fault_cap, faults,
                   page_permits, page_cap, k_widgets, k_container, k_text,
                   k_faulted, k_fault_at, k_result>>

\* one pass of `for selector in CAPTCHA_SELECTORS`: count() raises (caught
\* by `except Exception: return False`), or the selector matches (return
\* True), or the loop goes on
DetectWidget ==
    /\ k_pc = "widgets"
    /\ \/ /\ k_faulted' = TRUE
          /\ k_fault_at' = "widgets"
          /\ k_pc' = AfterDetectFault("widgets")
          /\ k_result' = IF AfterDetectFault("widgets") = "done"
                          THEN FALSE ELSE k_result
          /\ UNCHANGED k_i
       \/ /\ k_i \in k_widgets
          /\ k_result' = TRUE
          /\ k_pc' = "done"
          /\ UNCHANGED <<k_i, k_faulted, k_fault_at>>
       \/ /\ k_i \notin k_widgets
          /\ IF k_i < NumSelectors
             THEN k_i' = k_i + 1 /\ UNCHANGED k_pc
             ELSE k_pc' = "container" /\ UNCHANGED k_i
          /\ UNCHANGED <<k_faulted, k_fault_at, k_result>>
    /\ UNCHANGED <<dvars, nvars, hvars, uvars, cvars, gvars, svars, bvars, wvars, envvars, evars, xvars, mvars, lvars, fault_cap, faults,
                   page_permits, page_cap, k_widgets, k_container, k_text>>

\* `has_jobs = await page.locator(JOB_CARDS_CONTAINER_SELECTOR).count() > 0`
DetectContainer ==
    /\ k_pc = "container"
    /\ \/ /\ k_faulted' = TRUE
          /\ k_fault_at' = "container"
          /\ k_pc' = AfterDetectFault("container")
          /\ k_result' = IF AfterDetectFault("container") = "done"
                          THEN FALSE ELSE k_result
       \/ /\ k_pc' = AfterContainer(k_container)
          /\ k_result' = IF AfterContainer(k_container) = "done"
                          THEN FALSE ELSE k_result
          /\ UNCHANGED <<k_faulted, k_fault_at>>
    /\ UNCHANGED <<dvars, nvars, hvars, uvars, cvars, gvars, svars, bvars, wvars, envvars, evars, xvars, mvars, lvars, fault_cap, faults,
                   page_permits, page_cap, k_widgets, k_container, k_text, k_i>>

\* `html = await page.content()` and the keyword test on html.lower()
DetectContent ==
    /\ k_pc = "content"
    /\ \/ /\ k_faulted' = TRUE
          /\ k_fault_at' = "content"
          /\ k_pc' = AfterDetectFault("content")
          /\ k_result' = IF AfterDetectFault("content") = "done"
                          THEN FALSE ELSE k_result
       \/ /\ k_result' = HasKeyword(k_text)
          /\ k_pc' = "done"
          /\ UNCHANGED <<k_faulted, k_fault_at>>
    /\ UNCHANGED <<dvars, nvars, hvars, uvars, cvars, gvars, svars, bvars, wvars, envvars, evars, xvars, mvars, lvars, fault_cap, faults,
                   page_permits, page_cap, k_widgets, k_container, k_text, k_i>>

NextDetect ==
    \/ DetectCall
    \/ DetectWidget
    \/ DetectContainer
    \/ DetectContent

SpecDetect == InitDetect /\ [][NextDetect]_vars

\* ----------------------------------------------------- scrape_jobs_batch
\* get_proxy_config(): the connection path the browser context is created
\* with; a provider without its key resolves to no proxy
GetProxyConfig(prov, key, pkey) ==
    IF prov = "scrapeops" /\ key THEN "scrapeops"
    ELSE IF prov = "scraperapi" /\ pkey THEN "scraperapi"
    ELSE "direct"

\* lines 118-123: `if settings.SCRAPEOPS_API_KEY and max_concurrent > 1:
\* max_concurrent = 1`
Clamp(key_set, c) == IF key_set /\ c > 1 THEN 1 ELSE c

Min(a, b) == IF a < b THEN a ELSE b

\* `batch_urls = job_urls[batch_start:batch_end]`, as positions in job_urls
BatchUrls(start, c, total) == (start + 1)..Min(start + c, total)

NextStart_Skip(start, c) == start + c + 1

\* `range(0, total, max_concurrent)`: the batch_start that follows `start`
NextStart(start, c) == start + c

\* `for batch_start in range(0, total, max_concurrent)`: is there a batch
\* after the one that starts at `start`
MoreBatches(start, c, total) == NextStart(start, c) < total

\* `batch_num = (batch_start // max_concurrent) + 1`
BatchNum(start, c) == (start \div c) + 1

NewPageRec(u) == [url |-> u, nav |-> FALSE, closes |-> 0]

NewItem == [round |-> 0, opened |-> "no", nav |-> "no", res |-> "pending",
            closes |-> 0, closed |-> "no"]

AfterItemError_Propagate(next) == "raised"

\* `except Exception as e: logger.error(...)` of the three loops: the item's
\* failure is logged and the loop goes on
AfterItemError(next) == next

\* the caller awaits scrape_jobs_batch(context, job_urls, max_concurrent)
BatchCall ==
    /\ b_pc = "idle"
    /\ \E n \in 0..MaxUrls, c \in 1..MaxConc :
          /\ b_urls' = [i \in 1..n |-> i]
          /\ b_req' = c
          /\ b_conc' = Clamp(relay, c)
          /\ b_items' = [i \in 1..n |-> NewItem]
          /\ b_pc' = IF n = 0 THEN "done" ELSE "open"
    /\ b_start' = 0
    /\ b_i' = 0
    /\ b_pages' = <<>>
    /\ b_jobs' = <<>>
    /\ b_ret' = <<>>
    /\ b_batches' = <<>>
    /\ UNCHANGED <<dvars, nvars, hvars, uvars, cvars, gvars, svars, wvars, envvars, kvars, evars, xvars, mvars, lvars, fault_cap, faults, page_permits,
                   page_cap>>

\* lines 143-150, one url of the batch: `page = await context.new_page()`;
\* a failure is logged and the url is left out of pages_and_urls. After the
\* last url the navigate loop starts; with no page opened the navigate and
\* extract loops are empty and the next batch (or the return) follows
BatchOpen ==
    /\ b_pc = "open"
    /\ LET total == Len(b_urls)
           batch == BatchUrls(b_start, b_conc, total)
           size == Cardinality(batch)
           u == b_start + b_i + 1
           last == b_i + 1 >= size
       IN \E ok \in BOOLEAN :
            LET pages == IF ok THEN Append(b_pages, NewPageRec(u)) ELSE b_pages
                after_last ==
                    IF pages # <<>> THEN "nav"
                    ELSE IF MoreBatches(b_start, b_conc, total) THEN "open"
                    ELSE "done"
                next == IF ok THEN (IF last THEN after_last ELSE "open")
                        ELSE AfterItemError(IF last THEN after_last ELSE "open")
            IN /\ ~ok => faults < fault_cap
               /\ faults' = IF ok THEN faults ELSE faults + 1
               /\ b_batches' = IF b_i = 0
                                THEN Append(b_batches, [j \in 1..size |-> b_start + j])
                                ELSE b_batches
               /\ b_items' = [b_items EXCEPT
                                ![u].round = BatchNum(b_start, b_conc),
                                ![u].opened = IF ok THEN "yes" ELSE "failed"]
               /\ b_pc' = next
               /\ b_pages' = IF next = "open" /\ last THEN <<>> ELSE pages
               /\ b_i' = IF next = "open" /\ ~last THEN b_i + 1
                         ELSE IF next = "raised" THEN b_i ELSE 0
               /\ b_start' = IF last /\ next \in {"open", "done"}
                             THEN NextStart(b_start, b_conc) ELSE b_start
               /\ b_ret' = IF next = "done" THEN b_jobs ELSE b_ret
    /\ UNCHANGED <<dvars, nvars, hvars, uvars, cvars, gvars, svars, wvars, envvars, kvars, evars, xvars, mvars, lvars, fault_cap, page_permits, page_cap,
                   b_urls, b_conc, b_jobs, b_req>>

\* lines 152-166, one page of the batch: goto, settle, scroll; a failure is
\* logged and the page stays in pages_and_urls
BatchNav ==
    /\ b_pc = "nav"
    /\ LET k == b_i + 1
           u == b_pages[k].url
           last == k = Len(b_pages)
           next == IF last THEN "extract" ELSE "nav"
       IN \/ /\ b_pages' = [b_pages EXCEPT ![k].nav = TRUE]
             /\ b_items' = [b_items EXCEPT ![u].nav = "ok"]
             /\ b_pc' = next
             /\ b_i' = IF last THEN 0 ELSE k
             /\ UNCHANGED faults
          \/ /\ faults < fault_cap
             /\ faults' = faults + 1
             /\ b_items' = [b_items EXCEPT ![u].nav = "failed"]
             /\ b_pc' = AfterItemError(next)
             /\ b_i' = IF AfterItemError(next) = "raised" THEN b_i
                       ELSE IF last THEN 0 ELSE k
             /\ UNCHANGED b_pages
    /\ UNCHANGED <<dvars, nvars, hvars, uvars, cvars, gvars, svars, wvars, envvars, kvars, evars, xvars, mvars, lvars, fault_cap, page_permits, page_cap,
                   b_urls, b_conc, b_start, b_jobs, b_ret, b_req, b_batches>>

\* extract_job_from_page: the Job, or None when a critical field is missing
\* or anything raised inside it
PageJob(title, jk) ==
    IF MissingCritical(jk, title) THEN <<>> ELSE <<[id |-> jk, title |-> title]>>

ClosesOn_NoFinally(kind) == IF kind = "blocked" THEN 1 ELSE 0

\* close() calls one pass of the extract loop makes on its page: the
\* challenge branch calls `await page.close()` before `continue`, and the
\* finally block calls it on every path
ClosesOn(kind) == IF kind = "blocked" THEN 2 ELSE 1

\* what one pass of the extract loop finds on the page of url u: a
\* challenge, an exception out of the detector, or an extraction result
PageOutcomes(u) ==
    {[kind |-> "blocked", got |-> <<>>], [kind |-> "raised", got |-> <<>>]}
    \cup {[kind |-> IF PageJob(title, jk) = <<>> THEN "rejected" ELSE "job",
           got |-> PageJob(title, jk)] :
             title \in {"title", "Unknown Title"}, jk \in {NoId, b_urls[u]}}

\* lines 168-186, one page of the batch: challenge check, extraction, close.
\* A close() that raises in the finally block leaves scrape_jobs_batch; after
\* the last page the next batch starts with an empty pages_and_urls, or the
\* jobs are returned
BatchExtract ==
    /\ b_pc = "extract"
    /\ LET k == b_i + 1
           u == b_pages[k].url
           last == k = Len(b_pages)
           total == Len(b_urls)
       IN \E o \in PageOutcomes(u), closeFails \in BOOLEAN :
            LET nfaults == (IF o.kind \in {"blocked", "raised"} THEN 1 ELSE 0)
                           + (IF closeFails THEN 1 ELSE 0)
                after_last == IF MoreBatches(b_start, b_conc, total)
                              THEN "open" ELSE "done"
                flow == IF last THEN after_last ELSE "extract"
                next == IF closeFails THEN "raised"
                        ELSE IF o.kind = "raised" THEN AfterItemError(flow)
                        ELSE flow
                rec == [b_pages[k] EXCEPT !.closes = ClosesOn(o.kind)]
            IN /\ faults + nfaults <= fault_cap
               /\ faults' = faults + nfaults
               /\ b_jobs' = b_jobs \o o.got
               /\ b_items' = [b_items EXCEPT
                                ![u].res = o.kind,
                                ![u].closes = ClosesOn(o.kind),
                                ![u].closed = IF closeFails THEN "failed" ELSE "ok"]
               /\ b_pc' = next
               /\ b_pages' = IF last /\ next # "raised" THEN <<>>
                             ELSE [b_pages EXCEPT ![k] = rec]
               /\ b_i' = IF next = "extract" THEN k
                         ELSE IF next = "raised" THEN b_i ELSE 0
               /\ b_start' = IF last /\ next # "raised"
                             THEN NextStart(b_start, b_conc) ELSE b_start
               /\ b_ret' = IF next = "done" THEN b_jobs' ELSE b_ret
    /\ UNCHANGED <<dvars, nvars, hvars, uvars, cvars, gvars, svars, wvars, envvars, kvars, evars, xvars, mvars, lvars, fault_cap, page_permits, page_cap,
                   b_urls, b_conc, b_req, b_batches>>

NextBatch ==
    \/ BatchCall
    \/ BatchOpen
    \/ BatchNav
    \/ BatchExtract

SpecBatch == InitBatch /\ [][NextBatch]_vars

SpecClamp == InitClamp /\ [][NextBatch]_vars

\* the urls whose page the batch executor has opened and not yet closed
OpenBatchPages ==
    {u \in 1..Len(b_items) : b_items[u].opened = "yes" /\ b_items[u].closes = 0}

\* detail pages open at this moment, whoever opened them
OpenDetailPages ==
    Cardinality({t \in STasks : s_open[t]}) + Cardinality(OpenBatchPages)

\* ------------------------------------------------------------ safe_extract
\* number of entries of TITLE_SELECTORS, COMPANY_SELECTORS and
\* LOCATION_DETAIL_SELECTORS
NumTitleSelectors == 3

NumCompanySelectors == 4

NumLocationSelectors == 3

FieldNames == {"title", "company", "location"}

NumFieldSelectors(field) ==
    CASE field = "title" -> NumTitleSelectors
      [] field = "company" -> NumCompanySelectors
      [] field = "location" -> NumLocationSelectors

\* the characters of an element's text: white space and a letter
DomChars == {" ", "b"}

\* what `loc.count()` / `loc.first.inner_text()` do for one selector: no
\* element matches, a driver call raises, or the first element's text
NoMatch == <<"NOMATCH">>

Fault == <<"FAULT">>

DomTexts == SeqsUpTo(DomChars, MaxDomText)

SelectorOutcomes == {NoMatch, Fault} \cup DomTexts

\* str.strip(): leading and trailing white space removed
RECURSIVE LStrip(_)
LStrip(t) == IF t # <<>> /\ Head(t) = " " THEN LStrip(Tail(t)) ELSE t

RECURSIVE RStrip(_)
RStrip(t) ==
    IF t # <<>> /\ t[Len(t)] = " " THEN RStrip(SubSeq(t, 1, Len(t) - 1)) ELSE t

Strip(t) == RStrip(LStrip(t))

\* str.title() of the field names
TitleCase(field) ==
    CASE field = "title" -> "Title"
      [] field = "company" -> "Company"
      [] field = "location" -> "Location"

\* `return f"Unknown {field_name.title()}"`
Sentinel(field) == <<"Unknown", " ", TitleCase(field)>>

Hit_NoBlankCheck(o) == o \notin {NoMatch, Fault}

\* `if await loc.count() > 0: text = ...; if text and text.strip():` inside
\* the try block: a selector that matches nothing, raises or has blank text
\* is passed over
Hit(o) == o \notin {NoMatch, Fault} /\ Strip(o) # <<>>

\* `for selector in selectors:` from the i-th selector on
RECURSIVE SafeExtractFrom(_, _, _)
SafeExtractFrom(outs, i, field) ==
    IF i > Len(outs) THEN [value |-> Sentinel(field), consulted |-> Len(outs)]
    ELSE IF Hit(outs[i]) THEN [value |-> Strip(outs[i]), consulted |-> i]
    ELSE SafeExtractFrom(outs, i + 1, field)

SafeExtract(outs, field) == SafeExtractFrom(outs, 1, field)

\* a page for every way the selectors of a field can come out
InitSafe ==
    /\ InitNone
    /\ IdleFields
    /\ IdleDom
    /\ IdleLive
    /\ IdleMore
    /\ e_field \in FieldNames
    /\ e_outs \in [1..NumFieldSelectors(e_field) -> SelectorOutcomes]
    /\ e_pc = "idle"
    /\ e_value = <<>>
    /\ e_consulted = 0

\* `await safe_extract(page, selectors, field_name)`
SafeExtractCall ==
    /\ e_pc = "idle"
    /\ e_pc' = "done"
    /\ e_value' = SafeExtract(e_outs, e_field).value
    /\ e_consulted' = SafeExtract(e_outs, e_field).consulted
    /\ UNCHANGED <<dvars, nvars, hvars, uvars, cvars, gvars, svars, bvars, wvars, envvars, kvars, xvars, mvars, lvars, fault_cap,
                   faults, page_permits, page_cap, e_field, e_outs>>

NextSafe == SafeExtractCall

SpecSafe == InitSafe /\ [][NextSafe]_vars

\* ------------------------------------------- detail page field extraction
\* a key the JobPosting payload does not have / has with a value of another
\* shape than the extractor reads (not a dict, or a dict without the key read)
Absent == <<"ABSENT">>

Malformed == <<"MALFORMED">>

Unset == <<"UNSET">>

\* jobLocation of the payload: absent, not a dict with an address dict, or
\* an address with addressLocality and addressRegion (either may be empty)
NoAddress == [kind |-> "absent", city |-> <<>>, region |-> <<>>]

BadAddress == [kind |-> "malformed", city |-> <<>>, region |-> <<>>]

Addresses ==
    {NoAddress, BadAddress}
    \cup [kind : {"address"}, city : {<<>>, <<"x">>}, region : {<<>>, <<"y">>}]

\* extract_json_ld found no JobPosting script
NoPayload == [kind |-> "none", title |-> Absent, org |-> Absent,
              loc |-> NoAddress, desc |-> Absent]

\* the JobPosting payloads a detail page can carry
Payloads ==
    {NoPayload}
    \cup [kind : {"posting"}, title : {Absent, <<"p">>},
          org : {Absent, Malformed, <<"q">>}, loc : Addresses,
          desc : {Absent, <<"e">>}]

\* what the selectors of a field find: nothing at all, or blank text under
\* the first selector and text under the others
SampleOuts(field) ==
    {[i \in 1..NumFieldSelectors(field) |-> NoMatch],
     [i \in 1..NumFieldSelectors(field) |->
          IF i = 1 THEN <<" ">> ELSE <<"b", " ">>]}

\* an item of the list discover_jobs returned: the dict the click variant
\* appends (jobkey, title, description) or the url string of the url variant
RunnerItems ==
    [kind : {"dict"}, keys : {{"jobkey", "title", "description"}},
     jobkey : {"k1"}, title : {<<>>, <<"b">>}]
    \cup {[kind |-> "str", keys |-> {}, jobkey |-> "", title |-> <<>>]}

NoItem == [kind |-> "none", keys |-> {}, jobkey |-> "", title |-> <<>>]

\* the detail pages and urls an extraction can be given; on a dead page (the
\* target is closed or crashed) every driver call raises
DetailInputs ==
    [path : {"scrape_job", "batch"}, url_jk : {"", "k1"}, ld : Payloads,
     dom : [FieldNames -> UNION {SampleOuts(f) : f \in FieldNames}],
     desc : {NoMatch, Fault, <<"d">>}, dead : {FALSE}, item : {NoItem}]

\* every field has as many selector outcomes as its list has selectors
WellFormed(in) == \A f \in FieldNames : in.dom[f] \in SampleOuts(f)

NoDom == [f \in FieldNames |-> [i \in 1..NumFieldSelectors(f) |-> NoMatch]]

DeadInputs ==
    [path : {"scrape_job", "batch"}, url_jk : {"", "k1"}, ld : {NoPayload},
     dom : {NoDom}, desc : {Fault}, dead : {TRUE}, item : {NoItem}]

RunnerInputs ==
    [path : {"runner"}, url_jk : {""}, ld : {NoPayload}, dom : {NoDom},
     desc : {NoMatch}, dead : {FALSE}, item : RunnerItems]

NoRecord == [id |-> "", title |-> Unset, company |-> Unset,
             location |-> Unset, description |-> Unset]

Pending == [kind |-> "pending", cls |-> "none", job |-> NoRecord]

InitFields ==
    /\ InitNone
    /\ IdleSafe
    /\ IdleDom
    /\ IdleLive
    /\ IdleMore
    /\ x_in \in {in \in DetailInputs : WellFormed(in)}
                   \cup DeadInputs \cup RunnerInputs
    /\ x_pc = "idle"
    /\ x_ld = NoPayload
    /\ x_rec = [title |-> Unset, company |-> Unset, location |-> Unset,
                description |-> Unset]
    /\ x_seen = [title |-> 0, company |-> 0, location |-> 0, description |-> 0]
    /\ x_out = Pending

\* what the selectors of a field find when safe_extract runs
FieldOuts(field) ==
    IF x_in.dead THEN [i \in 1..NumFieldSelectors(field) |-> Fault]
    ELSE x_in.dom[field]

\* `qs.get("jk", ["unknown"])[0]`
JobId(url_jk) == IF url_jk = "" THEN "unknown" ELSE url_jk

\* title.startswith("Unknown")
StartsWithUnknown(title) == Len(title) >= 1 /\ title[1] = "Unknown"

MissingFields_IdOnly(job_id, title) == job_id = "unknown"

\* `if title.startswith("Unknown") or job_id == "unknown"`
MissingFields(job_id, title) == StartsWithUnknown(title) \/ job_id = "unknown"

UsePayload_Never(present) == FALSE

\* `if json_ld and "<key>" in json_ld: return ...` ahead of safe_extract
UsePayload(present) == present

\* str.strip(", "): leading and trailing commas and spaces removed
RECURSIVE LStripSep(_)
LStripSep(t) ==
    IF t # <<>> /\ Head(t) \in {",", " "} THEN LStripSep(Tail(t)) ELSE t

RECURSIVE RStripSep(_)
RStripSep(t) ==
    IF t # <<>> /\ t[Len(t)] \in {",", " "}
    THEN RStripSep(SubSeq(t, 1, Len(t) - 1)) ELSE t

\* `return f"{city}, {region}".strip(", ")`
LocationText(city, region) ==
    RStripSep(LStripSep(city \o <<",", " ">> \o region))

\* extract_title / extract_company / extract_location
FromPayload(field, ld) ==
    CASE field = "title" -> ld.kind = "posting" /\ ld.title # Absent
      [] field = "company" -> ld.kind = "posting" /\ ld.org \notin {Absent, Malformed}
      [] field = "location" -> ld.kind = "posting" /\ ld.loc.kind = "address"

PayloadValue(field, ld) ==
    CASE field = "title" -> ld.title
      [] field = "company" -> ld.org
      [] field = "location" -> LocationText(ld.loc.city, ld.loc.region)

ExtractField(field, ld) ==
    IF UsePayload(FromPayload(field, ld))
    THEN [value |-> PayloadValue(field, ld), consulted |-> 0]
    ELSE SafeExtract(FieldOuts(field), field)

\* what the description element gives: count() and inner_text()
DescOut == IF x_in.dead THEN Fault ELSE x_in.desc

\* extract_description (json_ld.py 76-89): the payload first, then the element
DescriptionOf(ld, out) ==
    IF ld.kind = "posting" /\ ld.desc # Absent
    THEN [value |-> ld.desc, consulted |-> 0]
    ELSE [value |-> IF out \in {NoMatch, Fault} THEN <<>> ELSE out,
          consulted |-> 1]

\* extract_job_from_page (scraping.py 59-72): the element first, the payload
\* when the element is absent, "" when a driver call raises
PageDescriptionOf(ld, out) ==
    [value |-> IF out = Fault THEN <<>>
               ELSE IF out # NoMatch THEN out
               ELSE IF ld.kind = "posting" /\ ld.desc # Absent THEN ld.desc
               ELSE <<>>,
     consulted |-> 1]

\* scrape_job after the challenge check, or extract_job_from_page, starts
FieldsCall ==
    /\ x_pc = "idle"
    /\ x_in.path \in {"scrape_job", "batch"}
    /\ x_pc' = "json_ld"
    /\ UNCHANGED <<dvars, nvars, hvars, uvars, cvars, gvars, svars, bvars, wvars, envvars, kvars, evars, mvars, lvars, fault_cap,
                   faults, page_permits, page_cap, x_in, x_ld, x_rec, x_seen,
                   x_out>>

\* `json_ld = await extract_json_ld(page)`: the JobPosting payload, or None
\* when there is none or a driver call raised
ExtractJsonLd ==
    /\ x_pc = "json_ld"
    /\ x_ld' = IF x_in.dead THEN NoPayload ELSE x_in.ld
    /\ x_pc' = "title"
    /\ UNCHANGED <<dvars, nvars, hvars, uvars, cvars, gvars, svars, bvars, wvars, envvars, kvars, evars, mvars, lvars, fault_cap,
                   faults, page_permits, page_cap, x_in, x_rec, x_seen, x_out>>

\* `title = await extract_title(page, json_ld)`, then company, then location
ExtractTitle ==
    /\ x_pc = "title"
    /\ x_rec' = [x_rec EXCEPT !.title = ExtractField("title", x_ld).value]
    /\ x_seen' = [x_seen EXCEPT !.title = ExtractField("title", x_ld).consulted]
    /\ x_pc' = "company"
    /\ UNCHANGED <<dvars, nvars, hvars, uvars, cvars, gvars, svars, bvars, wvars, envvars, kvars, evars, mvars, lvars, fault_cap,
                   faults, page_permits, page_cap, x_in, x_ld, x_out>>

ExtractCompany ==
    /\ x_pc = "company"
    /\ x_rec' = [x_rec EXCEPT !.company = ExtractField("company", x_ld).value]
    /\ x_seen' = [x_seen EXCEPT
                    !.company = ExtractField("company", x_ld).consulted]
    /\ x_pc' = "location"
    /\ UNCHANGED <<dvars, nvars, hvars, uvars, cvars, gvars, svars, bvars, wvars, envvars, kvars, evars, mvars, lvars, fault_cap,
                   faults, page_permits, page_cap, x_in, x_ld, x_out>>

ExtractLocation ==
    /\ x_pc = "location"
    /\ x_rec' = [x_rec EXCEPT !.location = ExtractField("location", x_ld).value]
    /\ x_seen' = [x_seen EXCEPT
                    !.location = ExtractField("location", x_ld).consulted]
    /\ x_pc' = "description"
    /\ UNCHANGED <<dvars, nvars, hvars, uvars, cvars, gvars, svars, bvars, wvars, envvars, kvars, evars, mvars, lvars, fault_cap,
                   faults, page_permits, page_cap, x_in, x_ld, x_out>>

\* the description: extract_description in scrape_job, the inline block of
\* extract_job_from_page in the batch path
ExtractDescription ==
    /\ x_pc = "description"
    /\ LET d == IF x_in.path = "scrape_job" THEN DescriptionOf(x_ld, DescOut)
                ELSE PageDescriptionOf(x_ld, DescOut)
       IN /\ x_rec' = [x_rec EXCEPT !.description = d.value]
          /\ x_seen' = [x_seen EXCEPT !.description = d.consulted]
    /\ x_pc' = "validate"
    /\ UNCHANGED <<dvars, nvars, hvars, uvars, cvars, gvars, svars, bvars, wvars, envvars, kvars, evars, mvars, lvars, fault_cap,
                   faults, page_permits, page_cap, x_in, x_ld, x_out>>

\* the id from the url, the check of the required fields and the Job: a
\* record without them raises Exception("Missing critical job fields") in
\* scrape_job and makes extract_job_from_page return None
Validate ==
    /\ x_pc = "validate"
    /\ LET job_id == JobId(x_in.url_jk)
       IN x_out' =
            IF MissingFields(job_id, x_rec.title)
            THEN IF x_in.path = "scrape_job"
                 THEN [kind |-> "raised", cls |-> "other", job |-> NoRecord]
                 ELSE [kind |-> "none", cls |-> "none", job |-> NoRecord]
            ELSE [kind |-> "job", cls |-> "none",
                  job |-> [id |-> job_id, title |-> x_rec.title,
                           company |-> x_rec.company,
                           location |-> x_rec.location,
                           description |-> x_rec.description]]
    /\ x_pc' = "done"
    /\ UNCHANGED <<dvars, nvars, hvars, uvars, cvars, gvars, svars, bvars, wvars, envvars, kvars, evars, mvars, lvars, fault_cap,
                   faults, page_permits, page_cap, x_in, x_ld, x_rec, x_seen>>

\* dict.get(key, default) on an item of jobs_data
ItemGet(item, key, default) ==
    IF key \notin item.keys THEN default
    ELSE IF key = "jobkey" THEN item.jobkey ELSE item.title

\* Runner.run, one pass of `for job_dict in jobs_data`: the Job is built from
\* the dict and appended; an item that is not a dict makes .get raise, which
\* the `except Exception` of the loop logs
RunnerConvert ==
    /\ x_pc = "idle"
    /\ x_in.path = "runner"
    /\ x_out' =
          IF x_in.item.kind = "dict"
          THEN [kind |-> "job", cls |-> "none",
                job |-> [id |-> ItemGet(x_in.item, "jobkey", "unknown"),
                         title |-> ItemGet(x_in.item, "title", Sentinel("title")),
                         company |-> Sentinel("company"),
                         location |-> Sentinel("location"),
                         description |-> <<>>]]
          ELSE [kind |-> "none", cls |-> "none", job |-> NoRecord]
    /\ x_pc' = "done"
    /\ UNCHANGED <<dvars, nvars, hvars, uvars, cvars, gvars, svars, bvars, wvars, envvars, kvars, evars, mvars, lvars, fault_cap,
                   faults, page_permits, page_cap, x_in, x_ld, x_rec, x_seen>>

NextFields ==
    \/ FieldsCall
    \/ ExtractJsonLd
    \/ ExtractTitle
    \/ ExtractCompany
    \/ ExtractLocation
    \/ ExtractDescription
    \/ Validate
    \/ RunnerConvert

SpecFields == InitFields /\ [][NextFields]_vars

\* ----------------------------------------------------- extract_jobs_from_dom
\* number of entries of SERP_CARD_SELECTORS
NumCardSelectors == 3

\* the container layouts of a listing card: 1 the table cell inside a slider
\* item, 2 a slider item without the table, 3 a plain list item
Layouts == 1..NumCardSelectors

\* the data-jk values a card's job link can carry (NoId: no link, or no id)
CardIds == 0..2

\* a listing card: its layout, the id of its job link, and whether a driver
\* call raises while the card is read
DomCards == [layout : Layouts, jk : CardIds, fault : BOOLEAN]

\* selector number sel of SERP_CARD_SELECTORS matches an element of the card
CardMatches(sel, card) == card.layout <= sel

\* `cards = await page.locator(selector).all()`: the positions of the cards
\* the selector matches, in document order
RECURSIVE MatchedFrom(_, _, _)
MatchedFrom(cards, sel, i) ==
    IF i > Len(cards) THEN <<>>
    ELSE (IF CardMatches(sel, cards[i]) THEN <<i>> ELSE <<>>)
         \o MatchedFrom(cards, sel, i + 1)

\* `for selector in SERP_CARD_SELECTORS: ... if cards: job_cards = cards;
\* break`: the cards of the first selector that matches any
RECURSIVE FirstMatching(_, _)
FirstMatching(cards, sel) ==
    IF sel > NumCardSelectors THEN <<>>
    ELSE IF MatchedFrom(cards, sel, 1) # <<>> THEN MatchedFrom(cards, sel, 1)
    ELSE FirstMatching(cards, sel + 1)

\* `for card in job_cards:` one entry for a card with a job link and an id;
\* a card that raises is passed over
RECURSIVE CardEntries(_, _)
CardEntries(cards, picked) ==
    IF picked = <<>> THEN <<>>
    ELSE LET card == cards[Head(picked)]
         IN (IF card.fault \/ card.jk = NoId THEN <<>>
             ELSE <<[id |-> card.jk, card |-> Head(picked)]>>)
            \o CardEntries(cards, Tail(picked))

ExtractJobsFromDom(cards) == CardEntries(cards, FirstMatching(cards, 1))

\* a listing page with up to MaxDomCards cards
InitDom ==
    /\ InitNone
    /\ IdleSafe
    /\ IdleFields
    /\ IdleLive
    /\ IdleMore
    /\ m_pc = "idle"
    /\ m_cards \in SeqsUpTo(DomCards, MaxDomCards)
    /\ m_jobs = <<>>

\* `await extract_jobs_from_dom(page)`
DomExtractCall ==
    /\ m_pc = "idle"
    /\ m_pc' = "done"
    /\ m_jobs' = ExtractJobsFromDom(m_cards)
    /\ UNCHANGED <<dvars, nvars, hvars, uvars, cvars, gvars, svars, bvars, wvars, envvars, kvars, evars, xvars, lvars,
                   fault_cap, faults, page_permits, page_cap, m_cards>>

NextDom == DomExtractCall

SpecDom == InitDom /\ [][NextDom]_vars

\* ------------------------------------------- scroll_to_load_all_jobs, run
\* `max_scrolls = 50  # Safety limit to prevent infinite scrolling`
MaxScrolls == 50

ScrollsDone_Stuck(n) == n

\* `scrolls_done += 1`
ScrollsDone(n) == n + 1

\* the scrollTo calls counted so far, n, and k more; the count is not kept
\* beyond the first values above max_scrolls
CountScrolls(n, k) ==
    IF n + k > MaxScrolls + 2 THEN MaxScrolls + 2 ELSE n + k

ScrollOn_OffByOne(done) == done <= MaxScrolls

\* `while scrolls_done < max_scrolls:`
ScrollOn(done) == done < MaxScrolls

\* the caller awaits scroll_to_load_all_jobs(page): `previous_height = await
\* page.evaluate("document.body.scrollHeight")`, `scrolls_done = 0`; when
\* the evaluate raises, the `except Exception` logs and the function returns
ScrollCall ==
    /\ c_pc = "idle"
    /\ c_done' = 0
    /\ c_up' = FALSE
    /\ \/ /\ c_pc' = "loop"
          /\ c_prev' = c_height
          /\ UNCHANGED <<faults, c_stop>>
       \/ /\ faults < fault_cap
          /\ faults' = faults + 1
          /\ c_pc' = "done"
          /\ c_stop' = "fault"
          /\ UNCHANGED c_prev
    /\ UNCHANGED <<dvars, nvars, hvars, uvars, gvars, svars, bvars, wvars, envvars, kvars, evars, xvars, mvars,
                   fault_cap, page_permits, page_cap, r_pc, r_data, r_i,
                   r_jobs, r_exc, c_steps, c_top, c_height>>

\* one pass of the loop body: scroll down, wait, one time in five scroll
\* back up a little (`random.random() < 0.2`), count, read the heights (lazy
\* loading may have made the page longer); at the bottom with new_height ==
\* previous_height the loop breaks, else previous_height is updated at the
\* bottom and the pass counts once more. A driver call that raises ends the
\* function through its `except Exception`, which logs and returns; the
\* scroll it interrupted may or may not have moved the page
ScrollStep ==
    /\ c_pc = "loop"
    /\ IF ScrollOn(c_done)
       THEN \/ /\ \E up \in BOOLEAN, bottom \in BOOLEAN, h \in c_height..MaxHeight :
                    /\ c_up' = up
                    /\ c_steps' = CountScrolls(c_steps, IF up THEN 2 ELSE 1)
                    /\ c_top' = FALSE
                    /\ c_height' = h
                    /\ IF bottom /\ h = c_prev
                       THEN /\ c_done' = ScrollsDone(c_done)
                            /\ c_pc' = "top"
                            /\ c_stop' = "stable"
                            /\ UNCHANGED c_prev
                       ELSE /\ c_done' = ScrollsDone(ScrollsDone(c_done))
                            /\ c_pc' = "loop"
                            /\ c_prev' = IF bottom THEN h ELSE c_prev
                            /\ UNCHANGED c_stop
               /\ UNCHANGED faults
            \/ /\ faults < fault_cap
               /\ faults' = faults + 1
               /\ c_pc' = "done"
               /\ c_stop' = "fault"
               /\ \E moved \in BOOLEAN :
                    /\ c_top' = (c_top /\ ~moved)
                    /\ c_steps' = CountScrolls(c_steps, IF moved THEN 1 ELSE 0)
               /\ UNCHANGED <<c_done, c_up, c_prev, c_height>>
       ELSE /\ c_pc' = "top"
            /\ c_stop' = "ceiling"
            /\ UNCHANGED <<c_done, c_up, faults, c_steps, c_top, c_prev, c_height>>
    /\ UNCHANGED <<dvars, nvars, hvars, uvars, gvars, svars, bvars, wvars, envvars, kvars, evars, xvars, mvars,
                   fault_cap, page_permits, page_cap, r_pc, r_data, r_i, r_jobs,
                   r_exc>>

\* `await page.evaluate("window.scrollTo(0, 0)")` and the wait after it,
\* inside the same try block: a failure is logged like any other
ScrollTop ==
    /\ c_pc = "top"
    /\ c_pc' = "done"
    /\ \/ /\ c_top' = TRUE
          /\ UNCHANGED <<faults, c_stop>>
       \/ /\ faults < fault_cap
          /\ faults' = faults + 1
          /\ c_stop' = "fault"
          /\ c_top' \in {c_top, TRUE}
    /\ UNCHANGED <<dvars, nvars, hvars, uvars, gvars, svars, bvars, wvars, envvars, kvars, evars, xvars, mvars,
                   fault_cap, page_permits, page_cap, c_done, c_up, r_pc, r_data,
                   r_i, r_jobs, r_exc, c_steps, c_prev, c_height>>

NextScroll ==
    \/ ScrollCall
    \/ ScrollStep
    \/ ScrollTop

\* scroll_to_load_all_jobs on a page of 1..MaxHeight screens
InitScroll ==
    /\ InitBase({}, 0, MaxFaults, {"url"}, {MaxCap}, {NoProxyEnv},
                {DefaultDecorator}, {PlainPage})
    /\ IdleSafe
    /\ IdleFields
    /\ IdleDom
    /\ IdlePage
    /\ IdleUrl
    /\ IdleCursor
    /\ IdleDriver
    /\ c_pc = "idle"
    /\ c_done = 0
    /\ c_up = FALSE
    /\ c_steps = 0
    /\ c_top = TRUE
    /\ c_prev = 0
    /\ c_height \in 1..MaxHeight
    /\ c_stop = "none"
    /\ r_pc = "off"
    /\ r_data = <<>>
    /\ r_i = 0
    /\ r_jobs = <<>>
    /\ r_exc = "none"

SpecScroll == InitScroll /\ [][NextScroll]_vars


\* the portals a caller names: the one in ADAPTERS and one that is not
Portals == {"indeed", "other"}

\* the caller awaits Runner.run(portal, query, location): a portal that is
\* not in ADAPTERS raises ValueError before the try block
RunCall ==
    /\ r_pc = "idle"
    /\ \E portal \in Portals :
          r_pc' = IF portal = "indeed" THEN "init" ELSE "raised"
    /\ UNCHANGED <<dvars, nvars, hvars, uvars, cvars, gvars, svars, bvars, wvars, envvars, kvars, evars, xvars, mvars,
                   fault_cap, faults, page_permits, page_cap, c_pc, c_done, c_up,
                   r_data, r_i, r_jobs, r_exc>>

\* `await BrowserManager.initialize()`, `get_context()`: a failure reaches
\* the `except Exception` of run, which logs it
RunInit ==
    /\ r_pc = "init"
    /\ \/ /\ r_pc' = "discover"
          /\ UNCHANGED <<faults, r_exc>>
       \/ /\ faults < fault_cap
          /\ faults' = faults + 1
          /\ r_exc' = "transport"
          /\ r_pc' = "close"
    /\ UNCHANGED <<dvars, nvars, hvars, uvars, cvars, gvars, svars, bvars, wvars, envvars, kvars, evars, xvars, mvars,
                   fault_cap, page_permits, page_cap, c_pc, c_done, c_up, r_data, r_i,
                   r_jobs>>

\* `jobs_data = await adapter.discover_jobs()` has returned or raised; a
\* failure reaches the `except Exception` of run
RunDiscovered ==
    /\ r_pc = "discover"
    /\ \E t \in sessions :
          \/ /\ pc[t] = "done"
             /\ r_data' = ret[t]
             /\ r_pc' = "convert"
             /\ UNCHANGED r_exc
          \/ /\ pc[t] = "raised"
             /\ r_exc' = "discovery"
             /\ r_pc' = "close"
             /\ UNCHANGED r_data
    /\ UNCHANGED <<dvars, nvars, hvars, uvars, cvars, gvars, svars, bvars, wvars, envvars, kvars, evars, xvars, mvars,
                   fault_cap, faults, page_permits, page_cap, c_pc, c_done, c_up, r_i,
                   r_jobs>>

\* the package's discover_jobs returns dicts, the module's returns url strings
IsDict(item) == variant = "click"

\* `for job_dict in jobs_data:` one pass: the Job is built and appended; on
\* an item that is not a dict .get raises, which the loop's own `except
\* Exception` logs. After the last item the loop that prints the jobs runs
RunConvert ==
    /\ r_pc = "convert"
    /\ IF r_i < Len(r_data)
       THEN /\ r_i' = r_i + 1
            /\ r_jobs' = IF IsDict(r_data[r_i + 1])
                         THEN Append(r_jobs, r_data[r_i + 1])
                         ELSE r_jobs
            /\ UNCHANGED r_pc
       ELSE /\ r_pc' = "close"
            /\ UNCHANGED <<r_i, r_jobs>>
    /\ UNCHANGED <<dvars, nvars, hvars, uvars, cvars, gvars, svars, bvars, wvars, envvars, kvars, evars, xvars, mvars,
                   fault_cap, faults, page_permits, page_cap, c_pc, c_done, c_up,
                   r_data, r_exc>>

\* `finally: await BrowserManager.close()`: run returns, or the failure of
\* close() leaves it
RunClose ==
    /\ r_pc = "close"
    /\ \/ /\ r_pc' = "finished"
          /\ UNCHANGED faults
       \/ /\ faults < fault_cap
          /\ faults' = faults + 1
          /\ r_pc' = "raised"
    /\ UNCHANGED <<dvars, nvars, hvars, uvars, cvars, gvars, svars, bvars, wvars, envvars, kvars, evars, xvars, mvars,
                   fault_cap, page_permits, page_cap, c_pc, c_done, c_up, r_data, r_i,
                   r_jobs, r_exc>>

NextRun ==
    \/ RunCall
    \/ RunInit
    \/ RunDiscovered
    \/ RunConvert
    \/ RunClose

\* the operation the caller has awaited, if any
Awaited ==
    IF r_pc # "idle" THEN "run"
    ELSE IF \E t \in STasks : s_pc[t] # "idle" THEN "scrape_job"
    ELSE IF b_pc # "idle" THEN "scrape_jobs_batch"
    ELSE IF w_pc # "idle" THEN "with_retry"
    ELSE IF c_pc # "idle" THEN "scroll_to_load_all_jobs"
    ELSE "none"

\* a run in which the caller awaits one operation: Runner.run with the
\* discover_jobs session it awaits, scrape_job tasks, scrape_jobs_batch, a
\* function under with_retry, or scroll_to_load_all_jobs
InitLive ==
    /\ InitBase({1}, MaxListed, MaxFaultsGate, {"url", "click"}, {MaxCap},
                {NoProxyEnv}, {DefaultDecorator}, {PlainPage})
    /\ IdleSafe
    /\ IdleFields
    /\ IdleDom
    /\ IdleMore
    /\ c_pc = "idle"
    /\ c_done = 0
    /\ c_up = FALSE
    /\ r_pc = "idle"
    /\ r_data = <<>>
    /\ r_i = 0
    /\ r_jobs = <<>>
    /\ r_exc = "none"

NextLive ==
    \/ /\ Awaited \in {"none", "run"}
       /\ NextRun
    \/ /\ r_pc = "discover"
       /\ Next
    \/ /\ Awaited \in {"none", "scrape_job"}
       /\ NextGate
    \/ /\ Awaited \in {"none", "scrape_jobs_batch"}
       /\ NextBatch
    \/ /\ Awaited \in {"none", "with_retry"}
       /\ NextRetry
    \/ /\ Awaited \in {"none", "scroll_to_load_all_jobs"}
       /\ NextScroll

\* every driver call returns or raises and the event loop runs every task
\* that can run: a step that stays possible is eventually taken
SpecLive == InitLive /\ [][NextLive]_vars /\ WF_vars(NextLive)

\* ------------------------------------- one extraction pass, url variant
\* what the page's script carries for window.mosaic.providerData: no script
\* ("absent"), a payload without metaData / mosaicProviderJobCardsModel
\* ("nomodel"), a page whose content() call raises ("fault"), or a model
\* with its results list
MosaicKinds == {"absent", "nomodel", "fault", "results"}

\* card ids of a page; NoId is a card without jobkey / data-jk
PassCards == SeqsUpTo(0..MaxCards, MaxCards)

ListingPages ==
    {pg \in [kind : MosaicKinds, results : PassCards, dom : PassCards] :
        pg.kind # "results" => pg.results = <<>>}

\* extract_mosaic_data: the results of the model, [] in every other case
\* (the exception of content() is logged and swallowed)
ExtractMosaicData(pg) == IF pg.kind = "results" THEN pg.results ELSE <<>>

FromMosaic_Always(job_cards) == TRUE

\* `if job_cards:` against `else: # Fallback to DOM extraction`
FromMosaic(job_cards) == job_cards # <<>>

InitPage ==
    /\ InitNone
    /\ IdleSafe
    /\ IdleFields
    /\ IdleDom
    /\ IdleLive
    /\ IdleScrolled
    /\ IdleUrl
    /\ IdleCursor
    /\ IdleDriver
    /\ g_pc = "idle"
    /\ g_page \in ListingPages
    /\ g_cards = <<>>
    /\ g_dom_ran = FALSE
    /\ g_urls = <<>>

\* IndeedAdapter.discover_jobs, lines 299-325: the mosaic cards when there
\* are any, else the cards of the DOM extraction; every card with an id not
\* seen yet is marked and appended
PageExtract ==
    /\ g_pc = "idle"
    /\ LET job_cards == ExtractMosaicData(g_page)
           used == IF FromMosaic(job_cards) THEN job_cards ELSE g_page.dom
       IN /\ g_cards' = used
          /\ g_dom_ran' = ~FromMosaic(job_cards)
          /\ g_urls' = AddNew(used, {}, <<>>).urls
    /\ g_pc' = "done"
    /\ UNCHANGED <<dvars, nvars, hvars, uvars, cvars, svars, bvars, wvars, envvars, kvars, evars, xvars, mvars,
                   lvars, fault_cap, faults, page_permits, page_cap, g_page>>

NextPass == PageExtract

SpecPage == InitPage /\ [][NextPass]_vars

\* ------------------------------------------- the url of a listing card
\* characters of an href: a letter, the colon, the slash
HrefChars == {"a", ":", "/"}

\* href: the attribute is missing (None), or its text (possibly empty)
Hrefs == {Absent} \cup SeqsUpTo(HrefChars, MaxHref)

\* data-jk of a card that got as far as the url step: not empty
CardJks == {<<"1">>, <<"2">>}

\* BASE_URL = "https://www.indeed.com", as scheme, "://" and host
BaseUrl == <<"a", ":", "/", "/", "a">>

\* f"/viewjob?jk={job_id}&from=shareddesktop_copy": a path that carries the id
ViewPath(jk) == <<"/", "a">> \o jk

StartsWithSlash(href) == Len(href) >= 1 /\ href[1] = "/"

\* lines 60-70: `if href:` None and "" are both falsy; `if
\* href.startswith("/")` prefixes the base; any other href is kept as it is
CardUrl(href, jk) ==
    IF href = Absent \/ href = <<>> THEN BaseUrl \o ViewPath(jk)
    ELSE IF StartsWithSlash(href) THEN BaseUrl \o href
    ELSE href

InitUrl ==
    /\ InitNone
    /\ IdleSafe
    /\ IdleFields
    /\ IdleDom
    /\ IdleLive
    /\ IdlePage
    /\ IdleScrolled
    /\ IdleCursor
    /\ IdleDriver
    /\ u_pc = "idle"
    /\ u_href \in Hrefs
    /\ u_jk \in CardJks
    /\ u_url = <<>>

\* the url step of the card loop of extract_jobs_from_dom
CardUrlStep ==
    /\ u_pc = "idle"
    /\ u_url' = CardUrl(u_href, u_jk)
    /\ u_pc' = "done"
    /\ UNCHANGED <<dvars, nvars, hvars, svars, bvars, wvars, envvars, kvars, evars, xvars, mvars,
                   lvars, gvars, cvars, fault_cap, faults, page_permits, page_cap,
                   u_href, u_jk>>

NextUrl == CardUrlStep

SpecUrl == InitUrl /\ [][NextUrl]_vars

\* --------------------------------------------- the cursor path and click
MinSteps == 20
MaxSteps == 35
ViewportMargin == 50
ViewportWidth == 1366
ViewportHeight == 768
CtrlJitter == 80

\* _random_viewport_point: points at least the margin away from every edge
Origins == {<<ViewportMargin, ViewportMargin>>,
            <<ViewportWidth - ViewportMargin - 6, ViewportHeight - ViewportMargin - 8>>}

\* _element_center: the centre of the element's bounding box
Centres == {<<660, 360>>, <<110, 40>>}

\* random.randint(20, 35), both ends included
StepsDrawn == MinSteps..MaxSteps

\* a control point: start + d * uniform(lo/10, hi/10) + uniform(-80, 80) on
\* each axis, at the two ends of both ranges
CtrlPoints(start, end, lo, hi) ==
    {<<start[1] + ((end[1] - start[1]) * f) \div 10 + o,
       start[2] + ((end[2] - start[2]) * f) \div 10 + o>> :
        <<f, o>> \in {<<lo, 0 - CtrlJitter>>, <<hi, CtrlJitter>>}}

Cube(n) == n * n * n

\* a coordinate as the numerator of a fraction over steps cubed
Scaled(p, steps) == <<p[1] * Cube(steps), p[2] * Cube(steps)>>

\* _bezier_point at t = i / steps, one axis, times steps cubed
BezierAxis(i, steps, a0, a1, a2, a3) ==
    LET u == steps - i
    IN  Cube(u) * a0 + 3 * u * u * i * a1 + 3 * u * i * i * a2 + Cube(i) * a3

bezier_point(i, steps, p0, p1, p2, p3) ==
    <<BezierAxis(i, steps, p0[1], p1[1], p2[1], p3[1]),
      BezierAxis(i, steps, p0[2], p1[2], p2[2], p3[2])>>

PathLen_Short(steps) == steps

\* range(steps + 1)
PathLen(steps) == steps + 1

random_cursor_path(start, end, steps, cp1, cp2) ==
    [k \in 1..PathLen(steps) |-> bezier_point(k - 1, steps, start, cp1, cp2, end)]

InitCursor ==
    /\ InitNone
    /\ IdleSafe
    /\ IdleFields
    /\ IdleDom
    /\ IdleLive
    /\ IdlePage
    /\ IdleScrolled
    /\ IdleUrl
    /\ IdleDriver
    /\ h_pc = "idle"
    /\ h_start = <<0, 0>>
    /\ h_end = <<0, 0>>
    /\ h_steps = 0
    /\ h_path = <<>>
    /\ h_i = 0
    /\ h_log = <<>>

CursorRest == <<dvars, svars, bvars, wvars, envvars, kvars, evars, xvars, mvars,
                lvars, gvars, cvars, uvars, nvars, fault_cap, faults, page_permits, page_cap>>

\* start = _random_viewport_point(...)
CursorStart ==
    /\ h_pc = "idle"
    /\ h_start' \in Origins
    /\ h_pc' = "center"
    /\ UNCHANGED <<CursorRest, h_end, h_steps, h_path, h_i, h_log>>

\* end = await _element_center(page, selector): the centre, or ValueError when
\* the element has no bounding box, or the driver's error
CursorCenter ==
    /\ h_pc = "center"
    /\ \/ /\ h_end' \in Centres
          /\ h_pc' = "path"
       \/ /\ h_pc' = "raised"
          /\ UNCHANGED h_end
    /\ UNCHANGED <<CursorRest, h_start, h_steps, h_path, h_i, h_log>>

\* path = random_cursor_path(start, end, steps=random.randint(20, 35))
CursorPath ==
    /\ h_pc = "path"
    /\ \E steps \in StepsDrawn :
       \E cp1 \in CtrlPoints(h_start, h_end, 2, 4) :
       \E cp2 \in CtrlPoints(h_start, h_end, 6, 8) :
          /\ h_steps' = steps
          /\ h_path' = random_cursor_path(h_start, h_end, steps, cp1, cp2)
    /\ h_i' = 1
    /\ h_pc' = "move"
    /\ UNCHANGED <<CursorRest, h_start, h_end, h_log>>

\* for x, y in path: await page.mouse.move(x, y)
CursorMove ==
    /\ h_pc = "move"
    /\ h_i <= Len(h_path)
    /\ \/ /\ h_log' = Append(h_log, <<"move", h_path[h_i]>>)
          /\ h_pc' = "pause"
       \/ /\ h_pc' = "raised"
          /\ UNCHANGED h_log
    /\ UNCHANGED <<CursorRest, h_start, h_end, h_steps, h_path, h_i>>

\* await page.wait_for_timeout(random.randint(5, 25))
CursorPause ==
    /\ h_pc = "pause"
    /\ \/ /\ h_log' = Append(h_log, <<"pause">>)
          /\ h_i' = h_i + 1
          /\ h_pc' = "move"
       \/ /\ h_pc' = "raised"
          /\ UNCHANGED <<h_log, h_i>>
    /\ UNCHANGED <<CursorRest, h_start, h_end, h_steps, h_path>>

\* after the loop: await page.mouse.click(end[0], end[1])
CursorClick ==
    /\ h_pc = "move"
    /\ h_i > Len(h_path)
    /\ \/ /\ h_log' = Append(h_log, <<"click", h_end>>)
          /\ h_pc' = "done"
       \/ /\ h_pc' = "raised"
          /\ UNCHANGED h_log
    /\ UNCHANGED <<CursorRest, h_start, h_end, h_steps, h_path, h_i>>

NextCursor ==
    \/ CursorStart
    \/ CursorCenter
    \/ CursorPath
    \/ CursorMove
    \/ CursorPause
    \/ CursorClick

SpecCursor == InitCursor /\ [][NextCursor]_vars

\* ------------------------------------------ BrowserManager and Runner.run
BTasks == 1..NumDriverTasks

\* the handles in the order initialize creates them; close() goes backwards
Playwright == 1
Browser == 2
Context == 3

\* what a task is started with: a classmethod of BrowserManager, or Runner.run
DriverOps == {"initialize", "get_context", "new_page", "close", "run"}

\* the k-th handle close() looks at: context, browser, playwright
CloseOrder(k) == 4 - k

InitDriver ==
    /\ InitNone
    /\ IdleSafe
    /\ IdleFields
    /\ IdleDom
    /\ IdleLive
    /\ IdlePage
    /\ IdleScrolled
    /\ IdleUrl
    /\ IdleCursor
    /\ bm_h = <<0, 0, 0>>
    /\ bm_made = <<0, 0, 0>>
    /\ bm_total = <<0, 0, 0>>
    /\ bm_pc = [t \in BTasks |-> "idle"]
    /\ bm_op = [t \in BTasks |-> "none"]
    /\ bm_k = [t \in BTasks |-> 0]
    /\ bm_after = [t \in BTasks |-> "none"]
    /\ bm_exc = [t \in BTasks |-> "none"]
    /\ bm_tore = [t \in BTasks |-> FALSE]

DriverRest == <<dvars, svars, bvars, wvars, envvars, kvars, evars, xvars, mvars,
                lvars, gvars, cvars, uvars, hvars, fault_cap, faults, page_permits,
                page_cap>>

\* a task starts one operation; calling close() starts a new period
DriverCall(t) ==
    /\ bm_pc[t] = "idle"
    /\ \E op \in DriverOps :
          /\ bm_op' = [bm_op EXCEPT ![t] = op]
          /\ bm_pc' = [bm_pc EXCEPT ![t] =
                          IF op \in {"initialize", "run"} THEN "check"
                          ELSE IF op = "close" THEN "c_check"
                          ELSE "gc"]
          /\ bm_made' = IF op = "close" THEN <<0, 0, 0>> ELSE bm_made
    /\ bm_k' = [bm_k EXCEPT ![t] = 1]
    /\ bm_after' = [bm_after EXCEPT ![t] = "top"]
    /\ UNCHANGED <<DriverRest, bm_h, bm_total, bm_exc, bm_tore>>

\* where a task goes when get_context returns cls._context
AfterGetContext(t) ==
    IF bm_op[t] = "new_page" THEN "tab"
    ELSE IF bm_op[t] = "run" THEN "work"
    ELSE "done"

\* where a task goes when initialize returns
AfterInitialize(t) ==
    IF bm_after[t] = "gc" THEN AfterGetContext(t)
    ELSE IF bm_op[t] = "run" THEN "gc"
    ELSE "done"

\* an exception leaves the operation; inside the try block of Runner.run it
\* reaches `except Exception`, which logs it, and the finally block follows
AfterDriverRaise(t) == IF bm_op[t] = "run" /\ ~bm_tore[t] THEN "c_check" ELSE "raised"

\* initialize, `if cls._x is None:` for the handle the task is at: a handle
\* that is set is passed over; for one that is None the creation is awaited
InitCheck(t) ==
    /\ bm_pc[t] = "check"
    /\ IF bm_h[bm_k[t]] = 0
       THEN /\ bm_pc' = [bm_pc EXCEPT ![t] = "wait"]
            /\ UNCHANGED bm_k
       ELSE IF bm_k[t] < Context
       THEN /\ bm_k' = [bm_k EXCEPT ![t] = @ + 1]
            /\ UNCHANGED bm_pc
       ELSE /\ bm_pc' = [bm_pc EXCEPT ![t] = AfterInitialize(t)]
            /\ UNCHANGED bm_k
    /\ UNCHANGED <<DriverRest, bm_h, bm_made, bm_total, bm_op, bm_after, bm_exc,
                   bm_tore>>

\* initialize, `cls._x = await ...`: the awaited creation returns a new
\* instance, which is stored in the handle, or raises
InitMade(t) ==
    /\ bm_pc[t] = "wait"
    /\ LET k == bm_k[t]
       IN \/ /\ bm_total' = [bm_total EXCEPT ![k] = @ + 1]
             /\ bm_made' = [bm_made EXCEPT ![k] = @ + 1]
             /\ bm_h' = [bm_h EXCEPT ![k] = bm_total[k] + 1]
             /\ IF k < Context
                THEN /\ bm_k' = [bm_k EXCEPT ![t] = k + 1]
                     /\ bm_pc' = [bm_pc EXCEPT ![t] = "check"]
                ELSE /\ bm_pc' = [bm_pc EXCEPT ![t] = AfterInitialize(t)]
                     /\ UNCHANGED bm_k
             /\ UNCHANGED <<bm_exc, bm_tore>>
          \/ /\ bm_pc' = [bm_pc EXCEPT ![t] = AfterDriverRaise(t)]
             /\ bm_exc' = [bm_exc EXCEPT ![t] = IF bm_op[t] = "run" THEN "init" ELSE @]
             /\ bm_tore' = [bm_tore EXCEPT ![t] = bm_op[t] = "run"]
             /\ bm_k' = [bm_k EXCEPT ![t] = 1]
             /\ bm_made' = IF bm_op[t] = "run" THEN <<0, 0, 0>> ELSE bm_made
             /\ UNCHANGED <<bm_h, bm_total>>
    /\ UNCHANGED <<DriverRest, bm_op, bm_after>>

\* get_context: `if cls._context is None: await cls.initialize()`, `return
\* cls._context`
GetContext(t) ==
    /\ bm_pc[t] = "gc"
    /\ IF bm_h[Context] = 0
       THEN /\ bm_pc' = [bm_pc EXCEPT ![t] = "check"]
            /\ bm_k' = [bm_k EXCEPT ![t] = 1]
            /\ bm_after' = [bm_after EXCEPT ![t] = "gc"]
       ELSE /\ bm_pc' = [bm_pc EXCEPT ![t] = AfterGetContext(t)]
            /\ UNCHANGED <<bm_k, bm_after>>
    /\ UNCHANGED <<DriverRest, bm_h, bm_made, bm_total, bm_op, bm_exc, bm_tore>>

\* new_page: `return await create_tab(context)`
NewTab(t) ==
    /\ bm_pc[t] = "tab"
    /\ \E ok \in BOOLEAN : bm_pc' = [bm_pc EXCEPT ![t] = IF ok THEN "done" ELSE "raised"]
    /\ UNCHANGED <<DriverRest, bm_h, bm_made, bm_total, bm_op, bm_k, bm_after,
                   bm_exc, bm_tore>>

\* Runner.run between get_context and the end of the try block: discovery,
\* conversion and printing end or raise; either way the finally block calls
\* BrowserManager.close()
RunWork(t) ==
    /\ bm_pc[t] = "work"
    /\ \E ok \in BOOLEAN :
          bm_exc' = [bm_exc EXCEPT ![t] = IF ok THEN @ ELSE "work"]
    /\ bm_pc' = [bm_pc EXCEPT ![t] = "c_check"]
    /\ bm_k' = [bm_k EXCEPT ![t] = 1]
    /\ bm_tore' = [bm_tore EXCEPT ![t] = TRUE]
    /\ bm_made' = <<0, 0, 0>>
    /\ UNCHANGED <<DriverRest, bm_h, bm_total, bm_op, bm_after>>

\* close, `if cls._x:` for the handle the task is at
CloseCheck(t) ==
    /\ bm_pc[t] = "c_check"
    /\ IF bm_h[CloseOrder(bm_k[t])] # 0
       THEN /\ bm_pc' = [bm_pc EXCEPT ![t] = "c_wait"]
            /\ UNCHANGED bm_k
       ELSE IF bm_k[t] < Context
       THEN /\ bm_k' = [bm_k EXCEPT ![t] = @ + 1]
            /\ UNCHANGED bm_pc
       ELSE /\ bm_pc' = [bm_pc EXCEPT ![t] = "done"]
            /\ UNCHANGED bm_k
    /\ UNCHANGED <<DriverRest, bm_h, bm_made, bm_total, bm_op, bm_after, bm_exc,
                   bm_tore>>

\* close, `await cls._x.close()` then `cls._x = None`; a close that raises
\* leaves close() with this handle and the later ones as they are
CloseMade(t) ==
    /\ bm_pc[t] = "c_wait"
    /\ LET k == bm_k[t]
       IN \/ /\ bm_h' = [bm_h EXCEPT ![CloseOrder(k)] = 0]
             /\ IF k < Context
                THEN /\ bm_k' = [bm_k EXCEPT ![t] = k + 1]
                     /\ bm_pc' = [bm_pc EXCEPT ![t] = "c_check"]
                ELSE /\ bm_pc' = [bm_pc EXCEPT ![t] = "done"]
                     /\ UNCHANGED bm_k
          \/ /\ bm_pc' = [bm_pc EXCEPT ![t] = "raised"]
             /\ UNCHANGED <<bm_h, bm_k>>
    /\ UNCHANGED <<DriverRest, bm_made, bm_total, bm_op, bm_after, bm_exc, bm_tore>>

NextDriver ==
    \E t \in BTasks :
        \/ DriverCall(t)
        \/ InitCheck(t)
        \/ InitMade(t)
        \/ GetContext(t)
        \/ NewTab(t)
        \/ RunWork(t)
        \/ CloseCheck(t)
        \/ CloseMade(t)

SpecDriver == InitDriver /\ [][NextDriver]_vars

\* ================================================================ claims
Last(s) == s[Len(s)]

Stopped(t) == pc[t] \in {"close", "done", "sleep", "raised"}

\* C1: in every reachable state of a discovery session, in either adapter
\* variant, the accumulated candidate list (and the list handed back to the
\* caller) holds no natural id twice, whatever ids the pages present.
C1_DedupInvariant ==
    \A t \in DTasks : NoDup(job_urls[t]) /\ NoDup(ret[t])

\* a finished session that extracted a page repeating an id within the page
\* and a page repeating an id of an earlier page, and returned >= 2 candidates
C1_Witness ==
    \E t \in DTasks :
        /\ pc[t] = "done"
        /\ Len(ret[t]) >= 2
        /\ \E p \in hist[t].extracted :
              \E i, j \in 1..Len(served[p]) :
                  i # j /\ served[p][i] = served[p][j] /\ served[p][i] # NoId
        /\ \E p, q \in hist[t].extracted :
              /\ p < q
              /\ (Range(served[p]) \cap Range(served[q])) \ {NoId} # {}

\* C2: a second discover_jobs call on the same adapter, made after the first
\* returned and over the same listing pages with no driver fault in either
\* call, returns the same set of ids as the first call.
C2_RerunSameIds ==
    \A a, b \in DTasks :
        (/\ a # b
         /\ pc[a] = "done" /\ pc[b] = "done"
         /\ a \in after[b]
         /\ faults = 0)
        => Range(ret[a]) = Range(ret[b])

\* C3: within one invocation of discover_jobs, once the extraction of a page
\* yields zero new ids the loop has stopped (reason: converged) and that page
\* is the last one fetched.
C3_Convergence ==
    \A t \in DTasks :
        \A i \in 1..Len(hist[t].news) :
            hist[t].news[i] = 0 =>
                /\ Len(hist[t].fetched) = i
                /\ Stopped(t)
                /\ hist[t].stop = "converged"

\* pages 0 and 1 were fetched, page 1 shows cards and every id on it was on
\* page 0, the session has returned and page 2 was never shown
C3_Witness ==
    \E t \in DTasks :
        /\ pc[t] = "done"
        /\ hist[t].fetched = <<0, 1>>
        /\ Len(hist[t].news) = 2
        /\ hist[t].news[1] >= 1 /\ hist[t].news[2] = 0
        /\ served[1] # <<>>
        /\ Range(served[1]) \subseteq Range(served[0])
        /\ served[2] = Unfetched

\* C4: within one invocation at most MAX_PAGES pages are fetched, all with
\* an index below MAX_PAGES, and a page after the first is fetched only if
\* the page before it yielded at least one new id.
C4_PageCeiling ==
    \A t \in DTasks :
        /\ Len(hist[t].fetched) <= MAX_PAGES
        /\ \A i \in 1..Len(hist[t].fetched) :
              /\ hist[t].fetched[i] < MAX_PAGES
              /\ i > 1 => (i - 1 <= Len(hist[t].news) /\ hist[t].news[i - 1] >= 1)

\* every page up to the ceiling yielded a new id and the ceiling stopped it
C4_Witness ==
    \E t \in DTasks :
        /\ pc[t] = "done"
        /\ hist[t].stop = "exhausted"
        /\ Len(hist[t].fetched) = MAX_PAGES
        /\ \A i \in 1..MAX_PAGES : hist[t].news[i] >= 1

\* C5: when the detector reports a challenge on page n, the invocation does
\* not scroll or extract page n, fetches nothing after it, and returns exactly
\* the candidates it had when page n was fetched.
C5_BlockedStop ==
    \A t \in DTasks :
        hist[t].stop = "blocked" =>
            /\ Stopped(t)
            /\ Last(hist[t].fetched) = page_num[t]
            /\ page_num[t] \notin hist[t].scrolled
            /\ page_num[t] \notin hist[t].extracted
            /\ job_urls[t] = hist[t].snap
            /\ pc[t] = "done" => ret[t] = hist[t].snap

\* a challenge on a later page, after candidates were accumulated
C5_Witness ==
    \E t \in DTasks :
        /\ pc[t] = "done"
        /\ hist[t].stop = "blocked"
        /\ page_num[t] >= 1
        /\ ret[t] # <<>>

C7_StrictOrder ==
    \A t \in DTasks :
        /\ \A i \in 1..Len(hist[t].fetched) :
              /\ hist[t].fetched[i] = i - 1
              /\ i < Len(hist[t].fetched) => hist[t].fetched[i] \in hist[t].extracted
        /\ pc[t] \in {"detect", "scroll", "extract"} =>
              /\ hist[t].fetched # <<>>
              /\ Last(hist[t].fetched) = page_num[t]
              /\ page_num[t] \notin hist[t].extracted

\* the third page is loaded while the first two have been extracted
C7_Witness ==
    \E t \in DTasks :
        /\ pc[t] = "detect"
        /\ hist[t].fetched = <<0, 1, 2>>
        /\ hist[t].extracted = {0, 1}

\* C8: with the listing gate at capacity 1, at most one of the concurrent
\* discover_jobs tasks has a listing page open, the gate's value stays within
\* 0..1, and discovery never takes a permit of the detail-page gate.
C8_ListingSerialized ==
    /\ Cardinality({t \in DTasks : page_open[t]}) <= 1
    /\ serp_permits \in 0..MAX_CONCURRENT_SERP
    /\ page_permits = page_cap

\* one task works on its open listing page while another waits at the gate
C8_Witness ==
    \E a, b \in DTasks :
        /\ a # b
        /\ page_open[a] /\ pc[a] = "extract"
        /\ pc[b] = "acquire"
        /\ serp_permits = 0

\* the scrape_job tasks inside the `async with page_limiter` block
InGate == {t \in STasks : s_pc[t] \in {"new_page", "goto", "detect", "extract", "close"}}

\* C9: the gate is a counting semaphore with scoped release: never more than
\* its capacity K tasks are inside the guarded block, the permits available
\* are always K minus the tasks inside (so every exit, by return or by any
\* exception, gave its permit back), and when every task has finished the
\* gate holds K permits again.
C9_GateSemaphore ==
    /\ Cardinality(InGate) <= page_cap
    /\ page_permits = page_cap - Cardinality(InGate)
    /\ (\A t \in STasks : s_pc[t] \in {"done", "raised"}) => page_permits = page_cap

\* the gate is full with a task inside and a task waiting for a permit,
\* after another task left the guarded block by an exception
C9_Witness ==
    \E a, b, c \in STasks :
        /\ s_pc[a] = "raised" /\ s_exc[a] # "none"
        /\ c \in InGate
        /\ s_pc[b] = "acquire"
        /\ page_permits = 0

\* C10: at every moment the number of open detail pages, opened by
\* scrape_job or by scrape_jobs_batch, is at most the capacity of the
\* detail-page gate, whatever max_concurrent the caller passes.
C10_DetailPagesWithinGate == OpenDetailPages <= page_cap

\* C11: a wrapped operation that fails k times with a transport-class
\* failure and then succeeds returns the success result, for every k up to
\* max_retries (the wrapper never gives up while k <= max_retries), with
\* exactly k sleeps, one between each pair of consecutive invocations.
C11_RetrySuccess ==
    /\ w_pc = "returned" =>
          /\ w_result = "ok"
          /\ Len(w_fails) = w_calls - 1
          /\ Len(w_sleeps) = w_calls - 1
    /\ (w_pc = "raised" /\ Last(w_fails) = "transport") => Len(w_fails) > w_max
    /\ w_pc = "call" => Len(w_sleeps) = w_calls
    /\ w_pc = "sleep" => Len(w_sleeps) = w_calls

\* max_retries = 3: two transport failures, success at the third invocation
C11_Witness ==
    /\ w_max = 3
    /\ w_pc = "returned"
    /\ w_fails = <<"transport", "transport">>
    /\ w_calls = 3
    /\ Len(w_sleeps) = 2
    /\ w_result = "ok"

\* C12: the wrapped operation is invoked no more times than the max-attempts
\* parameter of the decorator.
C12_InvocationsWithinMax == w_max >= 1 => w_calls <= w_max

\* C13: a failure that is not transport-class is never retried: it is the
\* last invocation, no sleep follows it and the caller gets that failure; when
\* it is the first failure the operation was invoked exactly once and the
\* wrapper never slept.
C13_NoRetryOfOther ==
    \A i \in 1..Len(w_fails) :
        w_fails[i] = "other" =>
            /\ i = Len(w_fails)
            /\ w_calls = i
            /\ Len(w_sleeps) = i - 1
            /\ w_pc = "raised"
            /\ w_result = "other"
            /\ i = 1 => (w_calls = 1 /\ w_sleeps = <<>> /\ w_retries = 0)

\* retries were left when the operation raised a failure of the other class
C13_Witness ==
    /\ w_max >= 1
    /\ w_fails = <<"other">>
    /\ w_pc = "raised"
    /\ w_result = "other"

\* d_k = min(base_delay * 2^k, max_delay), as the claim states it
BackoffFloor(k) ==
    LET grown == w_base * (2 ^ k) IN IF grown <= w_cap THEN grown ELSE w_cap

RECURSIVE SumTo(_, _)
SumTo(f, n) == IF n = 0 THEN 0 ELSE f[n] + SumTo(f, n - 1)

\* C14: the sleep that follows the k-th failure (k from 0) lies in
\* [d_k, 1.5 d_k]; d_k does not decrease with k; no sleep exceeds
\* 1.5 max_delay; the total sleep lies between the sum of the d_k and 1.5
\* times that sum (sleeps are recorded doubled).
C14_BackoffBounds ==
    LET n == Len(w_sleeps)
        floors == [i \in 1..n |-> BackoffFloor(i - 1)]
    IN /\ \A i \in 1..n :
             /\ 2 * floors[i] <= w_sleeps[i]
             /\ w_sleeps[i] <= 3 * floors[i]
             /\ w_sleeps[i] <= 3 * w_cap
             /\ i > 1 => floors[i - 1] <= floors[i]
       /\ 2 * SumTo(floors, n) <= SumTo(w_sleeps, n)
       /\ SumTo(w_sleeps, n) <= 3 * SumTo(floors, n)

\* three sleeps, the third one capped by max_delay and with full jitter
C14_Witness ==
    /\ Len(w_sleeps) = 3
    /\ w_base * 4 > w_cap
    /\ w_base < w_cap
    /\ w_sleeps[1] = 2 * w_base
    /\ w_sleeps[3] = 3 * w_cap

\* C15: for N targets and effective concurrency C the batch executor forms
\* ceil(N/C) batches in input order, batch k holding the targets
\* (k-1)C+1 .. min(kC, N): every batch has C targets except possibly the
\* last, which has N - C(ceil(N/C) - 1), and every target is in exactly one.
C15_BatchPartition ==
    LET N == Len(b_urls)
        C == b_conc
        nb == (N + C - 1) \div C
    IN /\ Len(b_batches) <= nb
       /\ b_pc = "done" => Len(b_batches) = nb
       /\ \A k \in 1..Len(b_batches) :
             /\ Len(b_batches[k]) = IF k < nb THEN C ELSE N - C * (nb - 1)
             /\ \A j \in 1..Len(b_batches[k]) : b_batches[k][j] = (k - 1) * C + j

\* five targets with concurrency 2 were handled in batches of 2, 2 and 1
C15_Witness ==
    /\ b_pc = "done"
    /\ Len(b_urls) = 5
    /\ b_conc = 2
    /\ b_batches = << <<1, 2>>, <<3, 4>>, <<5>> >>

\* the records of the urls 1..n whose own extraction produced a Job
RECURSIVE JobsOfItems(_, _)
JobsOfItems(items, n) ==
    IF n = 0 THEN <<>>
    ELSE JobsOfItems(items, n - 1)
         \o (IF items[n].res = "job"
             THEN <<[id |-> b_urls[n], title |-> "title"]>> ELSE <<>>)

RoundOf(u) == ((u - 1) \div b_conc) + 1

\* C17: every page opened in round k has been closed before a page of round
\* k+1 is opened, so the open detail pages all belong to the current round
\* and are at most C; within a round every page is opened before any is
\* navigated, and every page is navigated before any is extracted.
C17_RoundOrdering ==
    /\ Cardinality(OpenBatchPages) <= b_conc
    /\ \A u \in 1..Len(b_items) :
          LET it == b_items[u]
              earlier == 1..((RoundOf(u) - 1) * b_conc)
              mates == ((RoundOf(u) - 1) * b_conc + 1)
                          ..Min(RoundOf(u) * b_conc, Len(b_items))
          IN /\ (it.opened = "yes" /\ it.closes = 0) =>
                   /\ b_pc \in {"open", "nav", "extract", "raised"}
                   /\ RoundOf(u) = BatchNum(b_start, b_conc)
             /\ it.opened # "no" =>
                   \A w \in earlier :
                       /\ b_items[w].opened # "no"
                       /\ b_items[w].opened = "yes" => b_items[w].closes >= 1
             /\ it.nav # "no" => \A v \in mates : b_items[v].opened # "no"
             /\ it.res # "pending" =>
                   \A v \in mates :
                       b_items[v].opened = "yes" => b_items[v].nav # "no"

\* the second round has its two pages open, the two of the first are closed
C17_Witness ==
    /\ b_pc = "nav"
    /\ b_conc = 2
    /\ OpenBatchPages = {3, 4}
    /\ b_items[1].closes = 1 /\ b_items[2].closes = 1

\* C18: close() is called exactly once on every page the batch executor
\* opened and handled, and never a second time, on every path.
C18_ClosedExactlyOnce ==
    \A u \in 1..Len(b_items) :
        /\ b_items[u].closes <= 1
        /\ b_items[u].res # "pending" => b_items[u].closes = 1

\* C19: the batch executor runs with concurrency 1 whenever the active
\* connection path is the rate-limited relay, and with the caller's
\* max_concurrent unchanged whenever no relay is the active path.
C19_RelayClamp ==
    b_pc # "idle" =>
        LET path == GetProxyConfig(provider, relay, peer_key)
        IN /\ path = "scrapeops" => b_conc = 1
           /\ path = "direct" => b_conc = b_req

\* the page text holds a blocking phrase, whatever the case of its letters
TextHasPhrase ==
    \E kw \in BLOCKING_KEYWORDS :
        \E off \in 0..(Len(k_text) - Len(kw)) :
            \A j \in 1..Len(kw) :
                k_text[off + j] = kw[j] \/ (k_text[off + j] = "A" /\ kw[j] = "a")

\* C20: a detection in which no driver call faults returns blocked exactly
\* when (a) a challenge-widget locator matches an element or (b) the results
\* container is absent and the page text holds a blocking phrase, in any
\* case; a page with no widget, the container and a blocking phrase is not
\* blocked; and blocked is never answered without (a) or (b).
C20_Classification ==
    k_pc = "done" =>
        LET a == k_widgets # {}
            b == ~k_container /\ TextHasPhrase
        IN /\ ~k_faulted => (k_result = (a \/ b))
           /\ k_result = TRUE => (a \/ b)
           /\ (k_widgets = {} /\ k_container /\ TextHasPhrase) => k_result = FALSE

\* no widget, the container present and a phrase in upper case: not blocked
C20_Witness ==
    /\ k_pc = "done"
    /\ ~k_faulted
    /\ k_widgets = {}
    /\ k_container
    /\ k_text = <<"z", "A", "z">>
    /\ k_result = FALSE

\* C21: the detector never raises: when a driver call of a detection faults,
\* at the widget lookups, at the container lookup or at the read of the page
\* text, the detection ends normally and answers blocked = false.
C21_DetectorNeverRaises ==
    /\ k_pc # "raised"
    /\ k_faulted => (k_pc = "done" /\ k_result = FALSE /\ k_fault_at # "none")

\* the read of the text of a page without container faulted, after every
\* widget lookup found nothing; the text holds a blocking phrase
C21_Witness ==
    /\ k_pc = "done"
    /\ k_fault_at = "content"
    /\ k_i = NumSelectors
    /\ ~k_container
    /\ TextHasPhrase
    /\ k_result = FALSE

\* the selectors whose first element has text that is not blank
GoodSelectors ==
    {i \in 1..Len(e_outs) :
        /\ e_outs[i] \notin {NoMatch, Fault}
        /\ \E j \in 1..Len(e_outs[i]) : e_outs[i][j] # " "}

\* C25: with no structured payload field, the value is the trimmed text of
\* the first selector, in list order, whose element has non-blank text;
\* selectors that match nothing, have empty or blank text or fault are passed
\* over, no selector after the hit is looked up, and with no hit at all the
\* value is the field's sentinel.
C25_FirstNonEmptyWins ==
    e_pc = "done" =>
        IF GoodSelectors = {}
        THEN e_value = Sentinel(e_field) /\ e_consulted = Len(e_outs)
        ELSE LET first == CHOOSE i \in GoodSelectors :
                              \A j \in GoodSelectors : i <= j
                 raw == e_outs[first]
             IN /\ e_consulted = first
                /\ e_value # <<>>
                /\ Head(e_value) # " " /\ Last(e_value) # " "
                /\ \E lead, trail \in SeqsUpTo({" "}, Len(raw)) :
                       raw = lead \o e_value \o trail

\* the title selectors: the first has blank text, the second faults, the
\* third has text with white space around it
C25_Witness ==
    /\ e_pc = "done"
    /\ e_field = "title"
    /\ e_outs = << <<" ">>, Fault, <<" ", "b">> >>
    /\ e_value = <<"b">>
    /\ e_consulted = 3

\* C22: no record handed to a caller, by scrape_job, by the batch path
\* (extract_job_from_page) or by Runner.run, has a sentinel title or the
\* sentinel id; an extraction whose title resolved to the sentinel or whose
\* url gave no id hands over no record.
C22_RejectionInvariant ==
    /\ x_out.kind = "job" =>
          /\ ~StartsWithUnknown(x_out.job.title)
          /\ x_out.job.title # Unset
          /\ x_out.job.id \notin {"unknown", ""}
    /\ (x_pc = "done" /\ x_in.path # "runner"
          /\ (x_rec.title = Sentinel("title") \/ x_in.url_jk = "")) =>
          x_out.kind # "job"

\* scrape_job resolved the title to the sentinel on a page whose url has an
\* id, and no record came out
C22_Witness ==
    /\ x_pc = "done"
    /\ x_in.path = "scrape_job"
    /\ x_in.url_jk = "k1"
    /\ x_rec.title = Sentinel("title")
    /\ x_out.kind = "raised"

\* C23: when the payload obtained from the page has the title, the
\* organization name or the address, the resolved value (and the value of
\* the record handed over) is the payload's and no DOM selector of that
\* field was looked up, whatever the selectors would find.
C23_StructuredPrecedence ==
    /\ \A f \in FieldNames :
          (x_rec[f] # Unset /\ FromPayload(f, x_ld)) =>
              /\ x_seen[f] = 0
              /\ f = "title" => x_rec[f] = x_in.ld.title
              /\ f = "company" => x_rec[f] = x_in.ld.org
              /\ f = "location" =>
                    x_rec[f] \in {<<>>, <<"x">>, <<"y">>, <<"x", ",", " ", "y">>}
    /\ (x_out.kind = "job" /\ x_in.path # "runner") =>
          /\ x_out.job.title = x_rec.title
          /\ x_out.job.company = x_rec.company
          /\ x_out.job.location = x_rec.location

\* the payload has the three fields while the selectors of each would find
\* another text; the record carries the payload's values
C23_Witness ==
    /\ x_out.kind = "job"
    /\ x_in.ld.title = <<"p">> /\ x_in.ld.org = <<"q">>
    /\ x_in.ld.loc = [kind |-> "address", city |-> <<"x">>, region |-> <<"y">>]
    /\ \A f \in FieldNames : SafeExtract(x_in.dom[f], f).value = <<"b">>
    /\ x_out.job.title = <<"p">>
    /\ x_out.job.company = <<"q">>
    /\ x_out.job.location = <<"x", ",", " ", "y">>

\* C24: on every extraction path, when the payload has a description the
\* record's description is the payload's, even when the description element
\* is present with another text.
C24_DescriptionPrecedence ==
    (x_out.kind = "job" /\ x_ld.kind = "posting" /\ x_ld.desc # Absent) =>
        x_out.job.description = x_ld.desc

\* C26: a field without any source resolves to its sentinel (the description
\* to the empty string) without raising, and an extraction on a page whose
\* every driver call raises ends with a transport-class failure raised to
\* the retry wrapper, not with sentinel values or with no item.
C26_MissingVsUnreadable ==
    x_pc = "done" /\ x_in.path # "runner" =>
        /\ ~x_in.dead =>
              /\ \A f \in FieldNames :
                    (~FromPayload(f, x_in.ld)
                        /\ \A i \in 1..Len(x_in.dom[f]) : x_in.dom[f][i] = NoMatch)
                    => x_rec[f] = Sentinel(f)
              /\ (x_in.ld.desc = Absent /\ x_in.desc = NoMatch) =>
                    x_rec.description = <<>>
        /\ x_in.dead => (x_out.kind = "raised" /\ x_out.cls = "transport")

\* C27: a validation failure on a detail page is not retried and ends as "no
\* item": once the field check of scrape_job failed, the wrapper does not
\* sleep and the caller is not handed a failure.
C27_ValidationNoItem ==
    \A t \in STasks : s_exc[t] = "validation" => s_pc[t] \in {"close", "done"}

\* the entries of every card that has a job link with an id, in document order
RECURSIVE EntriesOfAll(_, _)
EntriesOfAll(cards, i) ==
    IF i > Len(cards) THEN <<>>
    ELSE (IF cards[i].jk # NoId THEN <<[id |-> cards[i].jk, card |-> i]>> ELSE <<>>)
         \o EntriesOfAll(cards, i + 1)

\* C28: on a page read without driver fault, the DOM listing extraction
\* returns one entry for every card that has a job link with an id, in
\* document order, with that id and that card's fields, whatever container
\* layouts the cards use; the other cards are skipped.
C28_DomListing ==
    (m_pc = "done" /\ \A i \in 1..Len(m_cards) : ~m_cards[i].fault) =>
        m_jobs = EntriesOfAll(m_cards, 1)

\* the operation the caller awaited has returned or raised: Runner.run (with
\* the discover_jobs call it awaits), every scrape_job task, the batch
\* executor, the function under with_retry, scroll_to_load_all_jobs
Returned ==
    \/ /\ r_pc \in {"finished", "raised"}
       /\ \A t \in sessions : pc[t] \in {"idle", "done", "raised"}
    \/ \A t \in STasks : s_pc[t] \in {"done", "raised"}
    \/ b_pc \in {"done", "raised"}
    \/ w_pc \in {"returned", "raised"}
    \/ c_pc = "done"

\* C29: termination. Whichever operation the caller awaits (Runner.run and
\* the discover_jobs call inside it, scrape_job tasks under the retry wrapper,
\* scrape_jobs_batch, a function under with_retry, scroll_to_load_all_jobs),
\* eventually it has returned or raised: no pagination, retry, batching or
\* scrolling loop runs forever.
C29_Termination == <>Returned

\* Runner.run finished with records after a discovery that read MAX_PAGES pages
C29_Witness ==
    /\ r_pc = "finished"
    /\ hist[1].stop = "exhausted"
    /\ Len(r_jobs) = MAX_PAGES

\* positions of scrape_job between `page = await context.new_page()` and the
\* end of `finally: await page.close()`
ScrapePageHeld == {"goto", "detect", "extract", "close"}

\* the same positions of discover_jobs
SerpPageHeld == {"search", "goto", "detect", "scroll", "extract", "close"}

\* C30: page close precedes failure propagation and permit release. For
\* scrape_job and discover_jobs a page is open only between new_page and the
\* close of the finally block, where the task still holds its gate permit;
\* the close acts on an open page (so it closes it once); once the call has
\* returned, raised, or handed its failure to the retry wrapper (which
\* sleeps), the page is closed.
C30_CloseBeforeExit ==
    /\ \A t \in STasks :
          /\ s_open[t] <=> s_pc[t] \in ScrapePageHeld
          /\ s_pc[t] \in {"sleep", "raised", "done"} => ~s_open[t]
    /\ page_permits =
          page_cap - Cardinality({t \in STasks :
                                    s_pc[t] \in ScrapePageHeld \cup {"new_page"}})
    /\ \A t \in DTasks :
          /\ page_open[t] <=> pc[t] \in SerpPageHeld
          /\ pc[t] \in {"sleep", "raised", "done"} => ~page_open[t]
    /\ serp_permits =
          MAX_CONCURRENT_SERP - Cardinality({t \in DTasks :
                                    pc[t] \in SerpPageHeld \cup {"new_page"}})

\* a scrape_job whose validation failed has raised with its page closed and
\* its permit back
C30_Witness ==
    \E t \in STasks :
        /\ s_pc[t] = "raised"
        /\ s_exc[t] = "validation"
        /\ ~s_open[t]
        /\ page_permits = page_cap

\* C39: no permit is held while backing off. A scrape_job task that sleeps
\* in the retry wrapper has left the `async with`: its page is closed and it
\* is not counted among the permit holders, so the permits available are the
\* capacity minus the tasks inside the gate and a waiting task can enter
\* whenever fewer than the capacity are inside; a task that wakes up for its
\* next attempt stands before the gate without a page.
C39_NoPermitWhileSleeping ==
    /\ \A t \in STasks :
          s_pc[t] \in {"sleep", "acquire", "new_page"} => ~s_open[t]
    /\ page_permits =
          page_cap - Cardinality({t \in STasks :
                        s_pc[t] \notin {"idle", "acquire", "sleep", "done", "raised"}})
    /\ \A t, u \in STasks :
          (s_pc[t] = "sleep" /\ s_pc[u] = "acquire"
              /\ Cardinality(InGate) < page_cap) => ENABLED ScrapeAcquire(u)

\* with a gate of capacity 1 a task is inside the gate while another one
\* sleeps before its second attempt
C39_Witness ==
    \E t, u \in STasks :
        /\ page_cap = 1
        /\ s_pc[t] = "sleep"
        /\ s_retries[t] = 0
        /\ s_pc[u] = "goto" /\ s_open[u]
        /\ page_permits = 0

\* C38: the dedup set and the returned candidates stay in step. When the
\* decorated discover_jobs call of a fresh adapter returns, also after the
\* retry wrapper re-attempted it, the ids it marked seen are the ids of the
\* candidates it returns.
C38_SeenMatchesReturned ==
    \A t \in sessions : pc[t] = "done" => seen_jks = Range(ret[t])

\* C31: per-page source exclusivity. When the embedded payload of a listing
\* page yields at least one entry, the pass uses exactly those entries and
\* does not run the DOM card extraction; the DOM extraction runs if and only
\* if the payload yields no entry, and then its cards are the ones used.
C31_SourceExclusive ==
    g_pc = "done" =>
        LET entries == IF g_page.kind = "results" THEN g_page.results ELSE <<>>
        IN /\ g_dom_ran <=> Len(entries) = 0
           /\ Len(entries) >= 1 => g_cards = entries
           /\ Len(entries) = 0 => g_cards = g_page.dom
           /\ \A i \in 1..Len(g_urls) :
                 \E j \in 1..Len(g_cards) : g_urls[i] = g_cards[j]

\* the payload carried one entry without an id while the DOM shows a card
\* with an id: the DOM was not read and the pass found nothing new
C31_Witness ==
    /\ g_pc = "done"
    /\ g_page.kind = "results"
    /\ g_page.results = <<NoId>>
    /\ \E i \in 1..Len(g_page.dom) : g_page.dom[i] # NoId
    /\ ~g_dom_ran
    /\ g_urls = <<>>

IsAbsolute(url) ==
    \E i \in 2..Len(url) :
        /\ url[i] = ":"
        /\ \A j \in 1..(i - 1) : url[j] = "a"

\* C33: every candidate url produced by the listing extraction is absolute,
\* whatever the href of the card: relative with or without a leading slash,
\* absolute, or missing.
C33_UrlAbsolute == u_pc = "done" => IsAbsolute(u_url)

\* the calls a finished move_cursor_to_element made: for every waypoint in
\* order one move and one pause, then one click at the target centre
MovesThenClick ==
    /\ Len(h_log) = 2 * Len(h_path) + 1
    /\ \A k \in 1..Len(h_path) :
          /\ h_log[2 * k - 1] = <<"move", h_path[k]>>
          /\ h_log[2 * k] = <<"pause">>
    /\ h_log[Len(h_log)] = <<"click", h_end>>

\* the path runs from the random origin to the centre of the target
EndsAtTarget ==
    /\ h_path # <<>>
    /\ h_path[1] = Scaled(h_start, h_steps)
    /\ h_path[Len(h_path)] = Scaled(h_end, h_steps)

\* C37 (as stated): the path of one move_cursor_to_element call has between
\* 20 and 35 waypoints, starts at the origin, ends at the target centre, each
\* move is followed by one pause and one click follows the last waypoint.
C37_WaypointCount ==
    h_pc = "done" =>
        /\ Len(h_path) \in MinSteps..MaxSteps
        /\ EndsAtTarget
        /\ MovesThenClick

\* C37 (amended): the path has steps + 1 waypoints for 20 to 35 steps, that is
\* between 21 and 36; it starts at the origin and ends at the target centre;
\* a finished call made one move and one pause per waypoint and then one
\* click at the target centre, and no click is made before the call finishes.
C37_PathShape ==
    /\ h_pc \in {"move", "pause", "done"} =>
          /\ Len(h_path) = h_steps + 1
          /\ Len(h_path) \in (MinSteps + 1)..(MaxSteps + 1)
          /\ EndsAtTarget
    /\ h_pc = "done" => MovesThenClick
    /\ h_pc \in {"move", "pause", "raised"} =>
          \A k \in 1..Len(h_log) : h_log[k][1] # "click"

C37_Witness ==
    /\ h_pc = "done"
    /\ h_steps = MaxSteps
    /\ Len(h_path) = MaxSteps + 1
    /\ h_log[Len(h_log)] = <<"click", h_end>>
    /\ h_start # h_end

\* C34: in the batch executor an item whose navigation raised is skipped: no
\* extraction result from its page is added to the returned records, and its
\* page is still closed.
C34_NavFailureSkipped ==
    \A u \in 1..Len(b_items) :
        b_items[u].nav = "failed" =>
            /\ b_items[u].res # "job"
            /\ \A k \in 1..Len(b_jobs) : b_jobs[k].id # b_urls[u]
            /\ b_items[u].res # "pending" => b_items[u].closes >= 1

\* C35: for any interleaving of tasks that call initialize, get_context or
\* new_page, at most one playwright instance, one browser and one context are
\* created between two close() calls, and none before the first such call.
C35_OneDriver ==
    /\ \A k \in {Playwright, Browser, Context} : bm_made[k] <= 1
    /\ (\A t \in BTasks : bm_pc[t] = "idle") => bm_total = <<0, 0, 0>>

\* C36: when the driver cannot be opened Runner.run hands the failure to its
\* caller; every run that started initialization calls close(); and once a
\* run has left with no other task at work, the context, browser and
\* playwright handles are all unset.
C36_FailurePropagates ==
    \A t \in BTasks :
        (bm_op[t] = "run" /\ bm_pc[t] \in {"done", "raised"}) =>
            /\ bm_exc[t] = "init" => bm_pc[t] = "raised"
            /\ bm_tore[t]
            /\ (\A u \in BTasks \ {t} : bm_pc[u] = "idle") => bm_h = <<0, 0, 0>>

====
